---- MODULE Spec2Model ----
(***************************************************************************)
(* Adaptive defense companion (src/enhanced-ai-companion.py): the          *)
(* countermeasure lifecycle manager, the pattern store, the trigger        *)
(* correlator and the engine step that wires them together.                *)
(*                                                                         *)
(* Conventions                                                             *)
(*  - Text is a sequence of atoms.  In service names and correlation keys  *)
(*    an atom is either "_" or an underscore-free chunk; in patterns an    *)
(*    atom is one character.                                               *)
(*  - Python floats that carry a ratio (severity, effectiveness,           *)
(*    confidence, threat score) are integers in thousandths.               *)
(*  - Timestamps are integer seconds.  time.time() is read from `now';     *)
(*    two successive add_countermeasure calls never read the same value.   *)
(*  - A field a Python dict does not hold is NoInt / NoId / NoTracking.    *)
(***************************************************************************)
EXTENDS Integers, Sequences, FiniteSets, TLC

\* ------------------------------------------------------------------ bounds
MaxTicks == 2
MaxAdds == 4
MaxLifeAdds == 3
MaxObservations == 2
MaxRestarts == 1
MaxAdmits == 2
MaxBatch == 2
MaxEvents == 3
MaxCorrelations == 3
MaxRecorded == 22
MaxMatches == 2
MaxObserved == 22
MaxWritten == 4
MaxRotations == 2
MaxDeploys == 3
MaxLaunches == 3
MaxCounted == 6
MaxLogCycles == 2
MaxDetections == 3
MaxWakes == 3
MaxAnalyses == 5
MaxStatsUpdates == 5
MaxScorings == 2

\* ------------------------------------------------------- program constants
COUNTERMEASURE_TTL == 86400
EFFECTIVENESS_THRESHOLD == 500
DefaultMaxRetries == 3
MinActiveSeconds == 1800
AggressiveInterval == 15
DefaultSeverity == 500

NoInt == 0 - 1
NoId == <<>>
NoTracking == [resurrections_before |-> NoInt, resurrections_after |-> NoInt,
               last_checked |-> NoInt]

HookTypes == {"screen_state_hook", "app_launch_hook", "network_hook",
              "bluetooth_hook", "usb_hook", "foreground_app_hook"}
CmTypes == {"preemptive_kill", "combined_strategy"} \cup HookTypes

SvcA == <<"svc">>
SvcB == <<"my", "_", "svc">>
Services == {SvcA, SvcB}

Min(a, b) == IF a < b THEN a ELSE b
Max(a, b) == IF a > b THEN a ELSE b

VARIABLES
    now,                    \* time.time()
    ticks,                  \* number of times the clock was advanced
    adds,                   \* number of add_countermeasure calls so far
    observations,           \* number of update_effectiveness calls so far
    restarts,               \* number of times the process was started again
    admits,                 \* number of add_patterns calls so far
    recorded,               \* number of record_event calls so far
    correlated,             \* number of check_resurrection_triggers calls so far
    steps,                  \* number of calls so far of each other operation
    loop_pc,                \* where run_continuous is: "cycle", "sleep", "backoff", "exited"
    countermeasures,        \* CountermeasureManager.countermeasures
    effectiveness_metrics,  \* CountermeasureManager.effectiveness_metrics
    cm_file,                \* content of COUNTERMEASURE_CONFIG
    metrics_file,           \* content of effectiveness_metrics.json
    patterns,               \* PatternManager.patterns: list and version
    pattern_cache,          \* PatternManager.pattern_cache: compiled patterns
    pattern_file,           \* content of PATTERN_CONFIG
    events,                 \* TriggerAnalyzer: the six event lists
    trigger_correlations,   \* TriggerAnalyzer.trigger_correlations
    service_stats,          \* ThreatScorer.service_stats
    threat_scores,          \* ThreatScorer.threat_scores
    kill_history,           \* AdaptiveDefenseCompanion.kill_history
    resurrection_patterns,  \* AdaptiveDefenseCompanion.resurrection_patterns
    log_file,               \* the log file on disk: its inode and its lines
    parser,                 \* LogParser: last_position, last_inode, last_size
    log_changed,            \* the file was rotated or truncated since the last read
    lines_written,          \* number of lines written to the log so far
    active_countermeasures, \* CountermeasureService.active_countermeasures
    handlers,               \* the handler threads started so far
    stop_flags,             \* the stop flags (threading.Event) that are set
    deploying,              \* where the thread inside _deploy_countermeasure is
    service_proc,           \* SecuritySupervisor: service["proc"], 0 for None
    service_restart,        \* SecuritySupervisor: service["restart"]
    failure_counts,         \* SecuritySupervisor: failure_counts[name]
    children,               \* the child processes of the service that run
    launched,               \* number of child processes started so far
    supervisor_pc,          \* where each thread of the supervisor is
    last_call               \* the last operation, with what it saw and did

clockVars == <<now, ticks, adds, observations, restarts, admits, recorded,
              correlated, steps, loop_pc>>
cmVars == <<countermeasures, effectiveness_metrics, cm_file, metrics_file>>
patternVars == <<patterns, pattern_cache, pattern_file>>
triggerVars == <<events, trigger_correlations>>
scorerVars == <<service_stats, threat_scores>>
engineVars == <<kill_history, resurrection_patterns>>
parserVars == <<log_file, parser, log_changed, lines_written>>
\* the components beside the companion's managers
executorVars == <<active_countermeasures, handlers, stop_flags, deploying>>
supervisorVars == <<service_proc, service_restart, failure_counts, children,
                    launched, supervisor_pc>>
otherVars == <<parserVars, executorVars, supervisorVars>>
\* the companion's managers and the counters of their calls
companionVars == <<now, ticks, adds, observations, restarts, admits, recorded,
                   correlated, steps, loop_pc, countermeasures,
                   effectiveness_metrics, cm_file, metrics_file, patterns,
                   pattern_cache, pattern_file, events, trigger_correlations,
                   service_stats, threat_scores, kill_history,
                   resurrection_patterns>>
vars == <<now, ticks, adds, observations, restarts, admits, recorded, correlated,
          steps, loop_pc, countermeasures, effectiveness_metrics, cm_file,
          metrics_file, patterns, pattern_cache, pattern_file, events,
          trigger_correlations, service_stats, threat_scores, kill_history,
          resurrection_patterns, last_call, log_file, parser, log_changed,
          lines_written, active_countermeasures, handlers, stop_flags, deploying,
          service_proc, service_restart, failure_counts, children, launched,
          supervisor_pc>>

\* ----------------------------------------------------- countermeasure dicts
\* A countermeasure as generate_countermeasures builds it: no id, no
\* tracking, no retry_count, no created_at / expires_at yet.
Proposal(type, service, interval, severity) ==
    [id |-> NoId, type |-> type, service |-> service, interval |-> interval,
     components |-> <<>>, severity |-> severity, ttl |-> COUNTERMEASURE_TTL,
     max_retries |-> DefaultMaxRetries, created_at |-> NoInt,
     expires_at |-> NoInt, retry_count |-> NoInt, tracking |-> NoTracking]

EmptyMetrics == [countermeasures |-> <<>>, services |-> <<>>]

\* effectiveness_metrics maps are ordered association lists (dict order)
Keys(m) == {m[i].key : i \in DOMAIN m}
Lookup(m, k) == (CHOOSE i \in DOMAIN m : m[i].key = k)
Get(m, k) == m[Lookup(m, k)].value
Put(m, k, v) ==
    IF k \in Keys(m) THEN [m EXCEPT ![Lookup(m, k)].value = v]
    ELSE Append(m, [key |-> k, value |-> v])

\* ------------------------------------------- CountermeasureManager (pure)
\* faulty variant: the retry limit is not looked at
clean_without_retry_limit(cms, t) ==
    SelectSeq(cms, LAMBDA cm : ~(cm.expires_at /= NoInt /\ cm.expires_at < t))

\* _clean_expired_countermeasures, lines 662-683
clean_expired_countermeasures(cms, t) ==
    SelectSeq(cms, LAMBDA cm :
        /\ ~(cm.expires_at /= NoInt /\ cm.expires_at < t)
        /\ ~(cm.retry_count /= NoInt /\ cm.max_retries /= NoInt
             /\ cm.retry_count >= cm.max_retries))

\* _is_duplicate_countermeasure, lines 735-754
is_duplicate_countermeasure(cm1, cm2) ==
    IF cm1.type /= cm2.type THEN FALSE
    ELSE IF cm1.service /= cm2.service THEN FALSE
    ELSE IF cm1.type = "preemptive_kill" THEN cm1.interval = cm2.interval
    ELSE IF cm1.type \in {"app_launch_hook", "screen_state_hook"} THEN TRUE
    ELSE FALSE

\* faulty variant: the id is made of type and service only, without the
\* hash of the time of the add
stamp_countermeasure_without_hash(c, t) ==
    LET ttl == IF c.ttl = NoInt THEN COUNTERMEASURE_TTL ELSE c.ttl
    IN  [c EXCEPT
            !.created_at = t,
            !.expires_at = t + ttl,
            !.tracking = IF @ = NoTracking
                         THEN [resurrections_before |-> 0,
                               resurrections_after |-> 0,
                               last_checked |-> t]
                         ELSE @,
            !.retry_count = IF @ = NoInt THEN 0 ELSE @,
            !.max_retries = IF @ = NoInt THEN DefaultMaxRetries ELSE @,
            !.id = IF @ = NoId THEN <<c.type, c.service>> ELSE @]

\* add_countermeasure lines 690-715: the dict after TTL, tracking, retry
\* fields and id were filled in
stamp_countermeasure(c, t) ==
    LET ttl == IF c.ttl = NoInt THEN COUNTERMEASURE_TTL ELSE c.ttl
    IN  [c EXCEPT
            !.created_at = t,
            !.expires_at = t + ttl,
            !.tracking = IF @ = NoTracking
                         THEN [resurrections_before |-> 0,
                               resurrections_after |-> 0,
                               last_checked |-> t]
                         ELSE @,
            !.retry_count = IF @ = NoInt THEN 0 ELSE @,
            !.max_retries = IF @ = NoInt THEN DefaultMaxRetries ELSE @,
            !.id = IF @ = NoId THEN <<c.type, c.service, t>> ELSE @]

\* add_countermeasure lines 717-729: update the first duplicate, or append
insert_or_update(cms, c, t) ==
    LET ttl == IF c.ttl = NoInt THEN COUNTERMEASURE_TTL ELSE c.ttl
        stamped == stamp_countermeasure(c, t)
        dups == {i \in DOMAIN cms : is_duplicate_countermeasure(cms[i], stamped)}
    IN  IF dups /= {}
        THEN LET i == CHOOSE j \in dups : \A k \in dups : j <= k
             IN  [cms EXCEPT ![i].expires_at = t + ttl,
                             ![i].retry_count = @ + 1]
        ELSE Append(cms, stamped)

\* add_countermeasure, lines 685-733, with the cleaning that its save does
add_countermeasure(cms, c, t) ==
    clean_expired_countermeasures(insert_or_update(cms, c, t), t)

\* _calculate_effectiveness, lines 917-945.  The tracking dict never holds a
\* created_at key (lines 698-702, 893-897, 1001-1005), so created_at is the
\* default of line 921: the time.time() of the call, t.
calculate_effectiveness(tracking, t) ==
    LET resurrections_before == Max(1, tracking.resurrections_before)
        resurrections_after == tracking.resurrections_after
        created_at == t
        last_checked == tracking.last_checked
        time_active == last_checked - created_at
        \* resurrections_rate_after / resurrections_rate_before, in thousandths
        rate_ratio ==
            IF time_active > 0
            THEN (resurrections_after * 3600 * 1000)
                     \div (time_active * resurrections_before)
            ELSE 0
        reduction == 1000 - rate_ratio
    IN  Max(0, Min(1000, reduction))

\* update_effectiveness lines 890-912, for the list entries 1..n
RECURSIVE track_resurrection(_, _, _, _, _, _)
track_resurrection(cms, eff, service, resurrections, t, n) ==
    IF n = 0 THEN [cms |-> cms, eff |-> eff]
    ELSE
      LET prev == track_resurrection(cms, eff, service, resurrections, t, n - 1)
          cm == prev.cms[n]
          tr == cm.tracking
          tr1 == IF tr.resurrections_before = 0 /\ tr.resurrections_after = 0
                 THEN [tr EXCEPT !.resurrections_before = resurrections]
                 ELSE [tr EXCEPT !.resurrections_after = @ + 1]
          tr2 == [tr1 EXCEPT !.last_checked = t]
      IN  IF cm.service /= service THEN prev
          ELSE [cms |-> [prev.cms EXCEPT ![n].tracking = tr2],
                eff |-> IF tr2.resurrections_before > 0
                        THEN Put(prev.eff, cm.id,
                                 [effectiveness |-> calculate_effectiveness(tr2, t),
                                  last_updated |-> t])
                        ELSE prev.eff]

NewServiceMetrics == [total_kills |-> 0, resurrections |-> 0,
                      last_kill |-> 0, last_resurrection |-> 0]

\* faulty variant: a kill is tracked like a resurrection
update_effectiveness_tracking_kills(cms, metrics, service, killed, t) ==
    LET old == IF service \in Keys(metrics.services)
               THEN Get(metrics.services, service) ELSE NewServiceMetrics
        sm  == IF killed
               THEN [old EXCEPT !.total_kills = @ + 1, !.last_kill = t]
               ELSE [old EXCEPT !.resurrections = @ + 1, !.last_resurrection = t]
        tracked == track_resurrection(cms, metrics.countermeasures, service,
                                      sm.resurrections + 1, t, Len(cms))
    IN  [cms |-> tracked.cms,
         metrics |-> [countermeasures |-> tracked.eff,
                      services |-> Put(metrics.services, service, sm)]]

\* update_effectiveness, lines 869-913 (before the save)
update_effectiveness(cms, metrics, service, killed, t) ==
    LET old == IF service \in Keys(metrics.services)
               THEN Get(metrics.services, service) ELSE NewServiceMetrics
        sm  == IF killed
               THEN [old EXCEPT !.total_kills = @ + 1, !.last_kill = t]
               ELSE [old EXCEPT !.resurrections = @ + 1, !.last_resurrection = t]
        tracked == IF killed THEN [cms |-> cms, eff |-> metrics.countermeasures]
                   ELSE track_resurrection(cms, metrics.countermeasures, service,
                                           sm.resurrections, t, Len(cms))
    IN  [cms |-> tracked.cms,
         metrics |-> [countermeasures |-> tracked.eff,
                      services |-> Put(metrics.services, service, sm)]]

\* faulty variant: the time a countermeasure has been active is not looked at
ineffective_indices_of_any_age(cms, metrics, threshold) ==
    {i \in DOMAIN cms : (IF cms[i].id \in Keys(metrics.countermeasures)
                         THEN Get(metrics.countermeasures, cms[i].id).effectiveness
                         ELSE 0) < threshold}

\* get_ineffective_countermeasures, lines 947-972: the indices selected
recorded_effectiveness(metrics, id) ==
    IF id \in Keys(metrics.countermeasures)
    THEN Get(metrics.countermeasures, id).effectiveness ELSE 0

ineffective_indices(cms, metrics, threshold) ==
    {i \in DOMAIN cms :
        /\ ~(cms[i].tracking.last_checked - cms[i].created_at < MinActiveSeconds)
        /\ recorded_effectiveness(metrics, cms[i].id) < threshold}

\* faulty variant: the raised severity is not capped at 1.0
escalate_uncapped(cm, t) ==
    LET typed ==
            IF cm.type = "preemptive_kill"
            THEN [cm EXCEPT !.interval =
                     Max(1, (IF cm.interval = NoInt THEN 30 ELSE cm.interval) \div 2)]
            ELSE IF cm.type \in HookTypes
            THEN [cm EXCEPT !.type = "combined_strategy",
                            !.components = <<cm.type, "preemptive_kill">>,
                            !.interval = AggressiveInterval]
            ELSE cm
    IN  [typed EXCEPT
            !.id = NoId,
            !.severity = cm.severity + 200,
            !.tracking = [resurrections_before |-> 0, resurrections_after |-> 0,
                          last_checked |-> t],
            !.ttl = COUNTERMEASURE_TTL * 2]

\* escalate_countermeasure, lines 974-1010
escalate_countermeasure(cm, t) ==
    LET typed ==
            IF cm.type = "preemptive_kill"
            THEN [cm EXCEPT !.interval =
                     Max(1, (IF cm.interval = NoInt THEN 30 ELSE cm.interval) \div 2)]
            ELSE IF cm.type \in HookTypes
            THEN [cm EXCEPT !.type = "combined_strategy",
                            !.components = <<cm.type, "preemptive_kill">>,
                            !.interval = AggressiveInterval]
            ELSE cm
    IN  [typed EXCEPT
            !.id = NoId,
            !.severity = Min(1000, cm.severity + 200),
            !.tracking = [resurrections_before |-> 0, resurrections_after |-> 0,
                          last_checked |-> t],
            !.ttl = COUNTERMEASURE_TTL * 2]

\* ------------------------------------------------------ text and sorting
\* Python str.rsplit('_', 1): text before and after the last "_" atom;
\* callers of this model only split keys that hold a "_"
LastUnderscore(key) ==
    CHOOSE i \in DOMAIN key : key[i] = "_" /\ \A j \in DOMAIN key : key[j] = "_" => j <= i
rsplit_underscore(key) ==
    LET i == LastUnderscore(key)
    IN  <<SubSeq(key, 1, i - 1), SubSeq(key, i + 1, Len(key))>>

\* list.sort(key=...), ascending and stable: `keys' holds the sort key of
\* each entry of `list'; the result lists the entries by key, entries with
\* equal keys in their original order
RECURSIVE InsertIndex(_, _, _)
InsertIndex(sorted, i, keys) ==
    IF sorted = <<>> THEN <<i>>
    ELSE IF keys[i] < keys[Head(sorted)] THEN <<i>> \o sorted
    ELSE <<Head(sorted)>> \o InsertIndex(Tail(sorted), i, keys)

RECURSIVE SortedIndices(_, _)
SortedIndices(n, keys) ==
    IF n = 0 THEN <<>>
    ELSE InsertIndex(SortedIndices(n - 1, keys), n, keys)

StableSort(list, keys) ==
    LET order == SortedIndices(Len(list), keys)
    IN  [i \in DOMAIN list |-> list[order[i]]]

\* list.sort(key=..., reverse=True): descending, equal keys keep their order
StableSortReverse(list, keys) ==
    StableSort(list, [i \in DOMAIN keys |-> 0 - keys[i]])

RECURSIVE SumSeq(_)
SumSeq(q) == IF q = <<>> THEN 0 ELSE Head(q) + SumSeq(Tail(q))

\* ------------------------------------------------- TriggerAnalyzer (pure)
WindowSize == 20
TimeWindow == 5

T_screen_state_change == <<"screen", "_", "state", "_", "change">>
T_network_change == <<"network", "_", "change">>
T_usb_event == <<"usb", "_", "event">>
T_bluetooth_event == <<"bluetooth", "_", "event">>
T_app_launch == <<"app", "_", "launch">>
T_foreground_app_change == <<"foreground", "_", "app", "_", "change">>
TriggerTypes == {T_screen_state_change, T_network_change, T_usb_event,
                 T_bluetooth_event, T_app_launch, T_foreground_app_change}

EventTypes == {"screen_state", "network", "usb", "bluetooth", "app_launch",
               "foreground_app"}

NoEvents == [screen_state_changes |-> <<>>, network_changes |-> <<>>,
             usb_events |-> <<>>, bluetooth_events |-> <<>>,
             app_launches |-> <<>>, foreground_app_changes |-> <<>>]

\* faulty variant: the newest entries are dropped, not the oldest
FirstN(q, n) == IF Len(q) <= n THEN q ELSE SubSeq(q, 1, n)

\* list[-20:]
LastN(q, n) == IF Len(q) <= n THEN q ELSE SubSeq(q, Len(q) - n + 1, Len(q))

\* record_event, lines 379-407
record_event(ev, event_type, timestamp, details) ==
    LET event == [timestamp |-> timestamp, details |-> details]
    IN  IF event_type = "screen_state"
        THEN [ev EXCEPT !.screen_state_changes = LastN(Append(@, event), WindowSize)]
        ELSE IF event_type = "network"
        THEN [ev EXCEPT !.network_changes = LastN(Append(@, event), WindowSize)]
        ELSE IF event_type = "usb"
        THEN [ev EXCEPT !.usb_events = LastN(Append(@, event), WindowSize)]
        ELSE IF event_type = "bluetooth"
        THEN [ev EXCEPT !.bluetooth_events = LastN(Append(@, event), WindowSize)]
        ELSE IF event_type = "app_launch"
        THEN [ev EXCEPT !.app_launches = LastN(Append(@, event), WindowSize)]
        ELSE IF event_type = "foreground_app"
        THEN [ev EXCEPT !.foreground_app_changes = LastN(Append(@, event), WindowSize)]
        ELSE ev

Abs(x) == IF x < 0 THEN 0 - x ELSE x

\* faulty variant: the boundary of the time window left out
strictly_in_time_window(resurrection_time, event) ==
    Abs(resurrection_time - event.timestamp) < TimeWindow

\* check_resurrection_triggers: the test of lines 416-417 (and 429-430, ...)
in_time_window(resurrection_time, event) ==
    Abs(resurrection_time - event.timestamp) <= TimeWindow

\* one of the six loops of check_resurrection_triggers (e.g. lines 415-425):
\* the triggers it appends, in window order
window_triggers(window, type, service, resurrection_time) ==
    LET hits == SelectSeq(window, LAMBDA e : in_time_window(resurrection_time, e))
    IN  [i \in DOMAIN hits |->
            [type |-> type, service |-> service,
             time_diff |-> Abs(resurrection_time - hits[i].timestamp),
             details |-> hits[i].details]]

\* triggers before the sort of line 493, in the order the loops append them
unsorted_triggers(ev, service, resurrection_time) ==
    window_triggers(ev.screen_state_changes, T_screen_state_change, service, resurrection_time)
    \o window_triggers(ev.network_changes, T_network_change, service, resurrection_time)
    \o window_triggers(ev.usb_events, T_usb_event, service, resurrection_time)
    \o window_triggers(ev.bluetooth_events, T_bluetooth_event, service, resurrection_time)
    \o window_triggers(ev.app_launches, T_app_launch, service, resurrection_time)
    \o window_triggers(ev.foreground_app_changes, T_foreground_app_change, service, resurrection_time)

\* f"{service}_{type}", the key of lines 425, 438, 451, 464, 477, 490
correlation_key(service, type) == service \o <<"_">> \o type

\* trigger_correlations[key] += 1 on a defaultdict(int)
Increment(corr, key) ==
    IF key \in Keys(corr) THEN Put(corr, key, Get(corr, key) + 1)
    ELSE Put(corr, key, 1)

\* faulty variant: a key is counted once per call, not once per trigger
RECURSIVE count_triggers_once_per_key(_, _)
count_triggers_once_per_key(corr, triggers) ==
    IF triggers = <<>> THEN corr
    ELSE LET key == correlation_key(Head(triggers).service, Head(triggers).type)
             others == SelectSeq(Tail(triggers),
                           LAMBDA t : correlation_key(t.service, t.type) /= key)
         IN  count_triggers_once_per_key(Increment(corr, key), others)

RECURSIVE count_triggers(_, _)
count_triggers(corr, triggers) ==
    IF triggers = <<>> THEN corr
    ELSE count_triggers(Increment(corr, correlation_key(Head(triggers).service,
                                                        Head(triggers).type)),
                        Tail(triggers))

\* check_resurrection_triggers, lines 409-495
check_resurrection_triggers(ev, corr, service, resurrection_time) ==
    LET found == unsorted_triggers(ev, service, resurrection_time)
    IN  [triggers |-> StableSort(found, [i \in DOMAIN found |-> found[i].time_diff]),
         corr |-> count_triggers(corr, found)]

\* get_strong_correlations lines 503-510: the entry built from one counter
correlation_entry(key, count) ==
    LET parts == rsplit_underscore(key)
    IN  [service |-> parts[1], trigger_type |-> parts[2], count |-> count,
         confidence |-> Min(1000, count * 100)]

\* get_strong_correlations, lines 497-517
DefaultMinCount == 3
get_strong_correlations(corr, min_count) ==
    LET strong == SelectSeq(corr, LAMBDA kv : kv.value >= min_count)
        entries == [i \in DOMAIN strong |->
                       correlation_entry(strong[i].key, strong[i].value)]
    IN  StableSortReverse(entries, [i \in DOMAIN entries |-> entries[i].confidence])

\* ----------------------------------------------------- ThreatScorer (pure)
SevenDays == 604800

NewServiceStats(t) ==
    [kill_count |-> 0, resurrection_count |-> 0, resurrection_times |-> <<>>,
     first_seen |-> t, last_seen |-> t, patterns_matched |-> {}]

\* faulty variant: the list of resurrection times is not cut
update_service_stats_uncut(stats, service, killed, resurrection_time, t) ==
    LET old == IF service \in Keys(stats) THEN Get(stats, service)
               ELSE NewServiceStats(t)
        seen == [old EXCEPT !.last_seen = t]
        new == IF killed THEN [seen EXCEPT !.kill_count = @ + 1]
               ELSE IF resurrection_time = NoInt
               THEN [seen EXCEPT !.resurrection_count = @ + 1]
               ELSE [seen EXCEPT !.resurrection_count = @ + 1,
                                 !.resurrection_times = Append(@, resurrection_time)]
    IN  Put(stats, service, new)

\* update_service_stats, lines 1022-1046
update_service_stats(stats, service, killed, resurrection_time, t) ==
    LET old == IF service \in Keys(stats) THEN Get(stats, service)
               ELSE NewServiceStats(t)
        seen == [old EXCEPT !.last_seen = t]
        new == IF killed THEN [seen EXCEPT !.kill_count = @ + 1]
               ELSE IF resurrection_time = NoInt
               THEN [seen EXCEPT !.resurrection_count = @ + 1]
               ELSE [seen EXCEPT !.resurrection_count = @ + 1,
                                 !.resurrection_times =
                                     LastN(Append(@, resurrection_time), 20)]
    IN  Put(stats, service, new)

\* faulty variant: the sum is not clamped to [0, 1]
threat_score_unclamped(st) ==
    LET ratio_part == IF st.kill_count > 0
                      THEN Min(300, (st.resurrection_count * 100) \div st.kill_count)
                      ELSE 0
        n == Len(st.resurrection_times)
        total == SumSeq(st.resurrection_times)
        speed_part == IF n = 0 THEN 0
                      ELSE IF total < 10 * n THEN 150
                      ELSE IF total < 30 * n THEN 100
                      ELSE IF total < 60 * n THEN 50
                      ELSE 0
        pattern_part == Min(200, Cardinality(st.patterns_matched) * 50)
    IN  500 + ratio_part + speed_part + pattern_part

\* calculate_threat_scores lines 1062-1087: the score of one service
threat_score(st) ==
    LET ratio_part == IF st.kill_count > 0
                      THEN Min(300, (st.resurrection_count * 100) \div st.kill_count)
                      ELSE 0
        n == Len(st.resurrection_times)
        total == SumSeq(st.resurrection_times)
        speed_part == IF n = 0 THEN 0
                      ELSE IF total < 10 * n THEN 150
                      ELSE IF total < 30 * n THEN 100
                      ELSE IF total < 60 * n THEN 50
                      ELSE 0
        pattern_part == Min(200, Cardinality(st.patterns_matched) * 50)
    IN  Max(0, Min(1000, 500 + ratio_part + speed_part + pattern_part))

\* calculate_threat_scores, lines 1055-1089: self.threat_scores afterwards
RECURSIVE calculate_threat_scores(_, _, _)
calculate_threat_scores(stats, scores, t) ==
    IF stats = <<>> THEN scores
    ELSE LET service == Head(stats).key
             st == Head(stats).value
         IN  calculate_threat_scores(
                 Tail(stats),
                 IF t - st.last_seen > SevenDays THEN scores
                 ELSE Put(scores, service, threat_score(st)),
                 t)

\* get_high_priority_threats, lines 1091-1114; resurrection_speed in
\* thousandths of a second
HighPriorityThreshold == 700
ANALYSIS_INTERVAL == 300
MAX_PATTERN_LENGTH == 20
MinServicesForDetection == 3
MinServicesForPatterns == 2
MinNgramCount == 2
ErrorBackoff == 60
get_high_priority_threats(scores, stats, threshold) ==
    LET high == SelectSeq(scores, LAMBDA kv : kv.value >= threshold)
        threats == [i \in DOMAIN high |->
                       LET st == Get(stats, high[i].key)
                       IN  [service |-> high[i].key, score |-> high[i].value,
                            kill_count |-> st.kill_count,
                            resurrection_count |-> st.resurrection_count,
                            resurrection_speed |->
                                (SumSeq(st.resurrection_times) * 1000)
                                    \div Max(1, Len(st.resurrection_times)),
                            patterns_matched |-> st.patterns_matched,
                            last_seen |-> st.last_seen]]
    IN  StableSortReverse(threats, [i \in DOMAIN threats |-> threats[i].score])

\* threat_scores.get(service, 0.5), lines 771 and 796
score_of(scores, service) ==
    IF service \in Keys(scores) THEN Get(scores, service)
    ELSE DefaultSeverity

\* ------------------------- CountermeasureManager.generate_countermeasures
\* lines 764-769: at least 3 intervals with population variance < 25;
\* sum((t - S/n)^2)/n < 25  <=>  sum((n*t - S)^2) < 25 * n^3
consistent_intervals(times) ==
    LET n == Len(times)
        S == SumSeq(times)
    IN  /\ n >= 3
        /\ SumSeq([i \in DOMAIN times |-> (n * times[i] - S) * (n * times[i] - S)])
               < 25 * n * n * n

\* faulty variant: the interval is not kept at 1 or above
kill_interval_unclamped(times) == (SumSeq(times) \div Len(times)) - 2

\* lines 773-781: "interval": max(1, int(avg_time) - 2)
kill_interval(times) == Max(1, (SumSeq(times) \div Len(times)) - 2)

\* lines 763-783
RECURSIVE kill_proposals(_, _)
kill_proposals(res_patterns, scores) ==
    IF res_patterns = <<>> THEN <<>>
    ELSE LET service == Head(res_patterns).key
             times == Head(res_patterns).value
         IN  (IF consistent_intervals(times)
              THEN <<Proposal("preemptive_kill", service, kill_interval(times),
                              score_of(scores, service))>>
              ELSE <<>>)
             \o kill_proposals(Tail(res_patterns), scores)

\* lines 798-862: the hook type of a trigger type, "" when no branch matches
hook_type_of(trigger_type) ==
    IF trigger_type = T_screen_state_change THEN "screen_state_hook"
    ELSE IF trigger_type = T_app_launch THEN "app_launch_hook"
    ELSE IF trigger_type = T_network_change THEN "network_hook"
    ELSE IF trigger_type = T_bluetooth_event THEN "bluetooth_hook"
    ELSE IF trigger_type = T_usb_event THEN "usb_hook"
    ELSE IF trigger_type = T_foreground_app_change THEN "foreground_app_hook"
    ELSE ""

\* lines 786-862
RECURSIVE hook_proposals(_, _)
hook_proposals(correlations, scores) ==
    IF correlations = <<>> THEN <<>>
    ELSE LET c == Head(correlations)
         IN  (IF c.confidence < 700 \/ hook_type_of(c.trigger_type) = ""
              THEN <<>>
              ELSE <<Proposal(hook_type_of(c.trigger_type), c.service, NoInt,
                              score_of(scores, c.service))>>)
             \o hook_proposals(Tail(correlations), scores)

\* generate_countermeasures, lines 756-867
generate_countermeasures(res_patterns, correlations, scores) ==
    LET new == kill_proposals(res_patterns, scores)
               \o hook_proposals(correlations, scores)
    IN  StableSortReverse(new, [i \in DOMAIN new |-> new[i].severity])

\* ----------------------------------------------------- PatternManager (pure)
MIN_PATTERN_LENGTH == 4
PATTERN_SIMILARITY_THRESHOLD == 750

\* the characters removed by re.sub(r'[\.\*\+\?\[\]\(\)\{\}\|\^\$\\]', '', p)
RegexSyntax == {".", "*", "+", "?", "[", "]", "(", ")", "{", "}", "|", "^",
                "$", "\\"}

\* lines 282 and 290: the pattern without regex syntax
pattern_core(pattern) == SelectSeq(pattern, LAMBDA ch : ch \notin RegexSyntax)

\* Python `a in b' on strings
IsSubstring(a, b) ==
    \E i \in 0..(Len(b) - Len(a)) : SubSeq(b, i + 1, i + Len(a)) = a

\* levenshtein_distance lines 30-35: one row of the table.  `current' holds
\* the entries computed so far (current_row), `previous' is previous_row
RECURSIVE levenshtein_row(_, _, _, _)
levenshtein_row(previous, c1, s2, current) ==
    IF Len(current) = Len(s2) + 1 THEN current
    ELSE LET j == Len(current)
             insertions == previous[j + 1] + 1
             deletions == current[j] + 1
             substitutions == previous[j] + (IF c1 /= s2[j] THEN 1 ELSE 0)
         IN  levenshtein_row(previous, c1, s2,
                 Append(current, Min(insertions, Min(deletions, substitutions))))

RECURSIVE levenshtein_rows(_, _, _, _)
levenshtein_rows(s1, s2, i, previous) ==
    IF i > Len(s1) THEN previous[Len(previous)]
    ELSE levenshtein_rows(s1, s2, i + 1,
                          levenshtein_row(previous, s1[i], s2, <<i>>))

\* levenshtein_distance, lines 23-37
levenshtein_distance(s1, s2) ==
    LET long == IF Len(s1) < Len(s2) THEN s2 ELSE s1
        short == IF Len(s1) < Len(s2) THEN s1 ELSE s2
    IN  IF Len(short) = 0 THEN Len(long)
        ELSE levenshtein_rows(long, short, 1, [k \in 1..(Len(short) + 1) |-> k - 1])

\* lines 297-302: similarity = 1 - distance / max(len) > threshold
similar_cores(a, b) ==
    /\ Len(a) > 0
    /\ Len(b) > 0
    /\ (Max(Len(a), Len(b)) - levenshtein_distance(a, b)) * 1000
           > PATTERN_SIMILARITY_THRESHOLD * Max(Len(a), Len(b))

\* faulty variant: only "candidate inside existing" is tested, not the converse
redundant_one_way(pattern_core_, existing_core) ==
    \/ IsSubstring(pattern_core_, existing_core)
    \/ similar_cores(pattern_core_, existing_core)

\* lines 289-302: the test against one existing pattern
redundant_with(pattern_core_, existing_core) ==
    \/ IsSubstring(pattern_core_, existing_core)
    \/ IsSubstring(existing_core, pattern_core_)
    \/ similar_cores(pattern_core_, existing_core)

\* _is_too_similar, lines 279-304
is_too_similar(pats, pattern) ==
    \/ Len(pattern_core(pattern)) < MIN_PATTERN_LENGTH
    \/ \E i \in DOMAIN pats :
           redundant_with(pattern_core(pattern), pattern_core(pats[i]))

\* add_patterns lines 255-265: unique_patterns
\* faulty variant: the admitted candidates come out last first
unique_patterns_last_first(pats, new_patterns) ==
    LET kept == SelectSeq(new_patterns, LAMBDA pattern :
                    /\ ~(\E i \in DOMAIN pats : pats[i] = pattern)
                    /\ ~is_too_similar(pats, pattern))
    IN  [k \in DOMAIN kept |-> kept[Len(kept) + 1 - k]]

unique_patterns(pats, new_patterns) ==
    SelectSeq(new_patterns, LAMBDA pattern :
        /\ ~(\E i \in DOMAIN pats : pats[i] = pattern)
        /\ ~is_too_similar(pats, pattern))

\* ".*Location.*Service", ".*Beacon.*Service", ".*Persistent.*", ".*KLMS.*",
\* ".*Tracking.*": default_patterns["patterns"], lines 209-215
DefaultPatterns ==
    << <<".", "*", "L", "o", "c", "a", "t", "i", "o", "n", ".", "*",
         "S", "e", "r", "v", "i", "c", "e">>,
       <<".", "*", "B", "e", "a", "c", "o", "n", ".", "*",
         "S", "e", "r", "v", "i", "c", "e">>,
       <<".", "*", "P", "e", "r", "s", "i", "s", "t", "e", "n", "t", ".", "*">>,
       <<".", "*", "K", "L", "M", "S", ".", "*">>,
       <<".", "*", "T", "r", "a", "c", "k", "i", "n", "g", ".", "*">> >>

\* ------------------------------------------- PatternManager.match_pattern
\* re.compile on the regular expressions of this model: letters, ".", a
\* postfix "*", "\" before a literal character, and "(" (which no pattern of
\* this model closes).  re.error is raised for a "*" with nothing to repeat,
\* for a repeated "*", for a "\" at the end and for an unclosed "(".
RECURSIVE regex_compiles_from(_, _, _)
regex_compiles_from(pattern, k, repeatable) ==
    IF k > Len(pattern) THEN TRUE
    ELSE IF pattern[k] = "\\"
    THEN k < Len(pattern) /\ regex_compiles_from(pattern, k + 2, TRUE)
    ELSE IF pattern[k] = "*"
    THEN repeatable /\ regex_compiles_from(pattern, k + 1, FALSE)
    ELSE IF pattern[k] = "(" THEN FALSE
    ELSE regex_compiles_from(pattern, k + 1, TRUE)

regex_compiles(pattern) == regex_compiles_from(pattern, 1, FALSE)

\* the atom of a compiled pattern that starts at k: its width in the
\* pattern and the characters it accepts
atom_width(pattern, k) == IF pattern[k] = "\\" THEN 2 ELSE 1
atom_accepts(pattern, k, ch) ==
    IF pattern[k] = "\\" THEN ch = pattern[k + 1]
    ELSE IF pattern[k] = "." THEN TRUE
    ELSE ch = pattern[k]

\* the pattern from position k on matches a prefix of the text from j on
RECURSIVE regex_match_here(_, _, _, _)
regex_match_here(pattern, k, text, j) ==
    IF k > Len(pattern) THEN TRUE
    ELSE LET w == atom_width(pattern, k)
             starred == k + w <= Len(pattern) /\ pattern[k + w] = "*"
         IN  IF starred
             THEN \E n \in 0..(Len(text) - j + 1) :
                      /\ \A i \in j..(j + n - 1) : atom_accepts(pattern, k, text[i])
                      /\ regex_match_here(pattern, k + w + 1, text, j + n)
             ELSE /\ j <= Len(text)
                  /\ atom_accepts(pattern, k, text[j])
                  /\ regex_match_here(pattern, k + w, text, j + 1)

\* regex.search(text), line 317
regex_search(pattern, text) ==
    \E j \in 1..(Len(text) + 1) : regex_match_here(pattern, 1, text, j)

\* match_pattern lines 310-322, after the first n patterns of the list: the
\* patterns matched so far and the cache (the set of compiled patterns)
RECURSIVE match_patterns(_, _, _, _)
match_patterns(pats, cache, text, n) ==
    IF n = 0 THEN [matched |-> <<>>, cache |-> cache]
    ELSE LET prev == match_patterns(pats, cache, text, n - 1)
             pattern == pats[n]
         IN  IF pattern \in prev.cache \/ regex_compiles(pattern)
             THEN [matched |-> IF regex_search(pattern, text)
                               THEN Append(prev.matched, pattern)
                               ELSE prev.matched,
                   cache |-> prev.cache \cup {pattern}]
             ELSE [matched |-> prev.matched, cache |-> prev.cache \ {pattern}]

\* faulty variant: the first pattern that fails to compile ends the call
match_pattern_aborting(pats, cache, text) ==
    LET failing == {i \in DOMAIN pats :
                       pats[i] \notin cache /\ ~regex_compiles(pats[i])}
        n == IF failing = {} THEN Len(pats)
             ELSE (CHOOSE i \in failing : \A j \in failing : i <= j) - 1
    IN  match_patterns(pats, cache, text, n)

\* match_pattern, lines 306-324
match_pattern(pats, cache, text) == match_patterns(pats, cache, text, Len(pats))

\* ------------------------------------------ ThreatScorer.add_pattern_match
\* add_pattern_match, lines 1048-1053
add_pattern_match(stats, service, pattern, t) ==
    LET known == IF service \in Keys(stats) THEN stats
                 ELSE update_service_stats(stats, service, FALSE, NoInt, t)
    IN  Put(known, service,
            [Get(known, service) EXCEPT !.patterns_matched = @ \cup {pattern}])

RECURSIVE add_pattern_matches(_, _, _, _)
add_pattern_matches(stats, service, matched, t) ==
    IF matched = <<>> THEN stats
    ELSE add_pattern_matches(add_pattern_match(stats, service, Head(matched), t),
                             service, Tail(matched), t)

\* ------------------------------------ AdaptiveDefenseCompanion.analyze_logs
\* A log line, by what the extraction of lines 1186-1260 finds in it:
\*   "kill"              [KILL] marker, the regex of line 1194 matches and
\*                       the timestamp parses
\*   "kill_bad_time"     [KILL] marker, regex matches, strptime raises
\*   "kill_unmatched"    [KILL] marker, the regex does not match
\*   "pattern"           [PATTERN] marker and the regex of line 1220 matches;
\*                       timestamp NoInt when the line's timestamp does not parse
\*   "pattern_unmatched" [PATTERN] marker, the regex does not match
\*   "event"             an ambient event found by extract_events_from_log
\*   "other"             none of these
\* Lines with a [KILL] or [PATTERN] marker hold no ambient event.
LogLine(kind, service, timestamp, seconds) ==
    [kind |-> kind, service |-> service, timestamp |-> timestamp,
     seconds |-> seconds]

\* defaultdict(list)[key].append(value)
AppendTo(m, key, value) ==
    IF key \in Keys(m) THEN Put(m, key, Append(Get(m, key), value))
    ELSE Put(m, key, <<value>>)

\* lines 1192-1213: a [KILL] line whose extraction succeeded
process_kill(st, pats, line, t) ==
    LET eff == update_effectiveness(st.cms, st.metrics, line.service, TRUE, t)
        m == match_pattern(pats, st.cache, line.service)
    IN  [st EXCEPT
            !.kill_history = AppendTo(@, line.service, line.timestamp),
            !.stats = add_pattern_matches(
                          update_service_stats(@, line.service, TRUE, NoInt, t),
                          line.service, m.matched, t),
            !.cms = eff.cms,
            !.metrics = eff.metrics,
            !.cache = m.cache,
            !.saves = @ + 1,
            !.kills = @ + 1]

\* lines 1218-1256: a [PATTERN] line whose extraction succeeded
process_resurrection(st, line, t) ==
    LET timestamp == IF line.timestamp = NoInt THEN t ELSE line.timestamp
        found == check_resurrection_triggers(st.events, st.corr, line.service,
                                             timestamp)
        eff == update_effectiveness(st.cms, st.metrics, line.service, FALSE, t)
    IN  [st EXCEPT
            !.resurrection_patterns = AppendTo(@, line.service, line.seconds),
            !.corr = found.corr,
            !.stats = update_service_stats(@, line.service, FALSE, line.seconds, t),
            !.cms = eff.cms,
            !.metrics = eff.metrics,
            !.saves = @ + 1,
            !.resurrections = @ + 1]

\* faulty variant: a [KILL] line whose timestamp does not parse is counted
\* as a kill at the time of reading
process_line_counting_bad_time(st, pats, line, t) ==
    IF line.kind = "event"
    THEN [st EXCEPT !.events = record_event(@, line.service,
                                  IF line.timestamp = NoInt THEN t ELSE line.timestamp,
                                  line.seconds)]
    ELSE IF line.kind = "kill" THEN process_kill(st, pats, line, t)
    ELSE IF line.kind = "kill_bad_time"
    THEN process_kill(st, pats, [line EXCEPT !.timestamp = t], t)
    ELSE IF line.kind = "pattern" THEN process_resurrection(st, line, t)
    ELSE st

\* lines 1186-1260: one line of the loop; for an "event" line the field
\* service holds the event kind and the field seconds its details
process_line(st, pats, line, t) ==
    IF line.kind = "event"
    THEN [st EXCEPT !.events = record_event(@, line.service,
                                  IF line.timestamp = NoInt THEN t ELSE line.timestamp,
                                  line.seconds)]
    ELSE IF line.kind = "kill" THEN process_kill(st, pats, line, t)
    ELSE IF line.kind = "pattern" THEN process_resurrection(st, line, t)
    ELSE st

RECURSIVE process_lines(_, _, _, _)
process_lines(st, pats, lines, t) ==
    IF lines = <<>> THEN st
    ELSE process_lines(process_line(st, pats, Head(lines), t), pats, Tail(lines), t)

\* ------------------------- PatternManager.generate_patterns_from_services
Letters ==
    {"a", "b", "c", "d", "e", "f", "g", "h", "i", "j", "k", "l", "m", "n", "o",
     "p", "q", "r", "s", "t", "u", "v", "w", "x", "y", "z",
     "A", "B", "C", "D", "E", "F", "G", "H", "I", "J", "K", "L", "M", "N", "O",
     "P", "Q", "R", "S", "T", "U", "V", "W", "X", "Y", "Z"}

\* the characters re.escape puts a backslash before
RegexSpecials ==
    {"(", ")", "[", "]", "{", "}", "?", "*", "+", "-", "|", "^", "$", "\\",
     ".", "&", "~", "#", " "}

RECURSIVE re_escape(_)
re_escape(text) ==
    IF text = <<>> THEN <<>>
    ELSE (IF Head(text) \in RegexSpecials THEN <<"\\", Head(text)>>
          ELSE <<Head(text)>>) \o re_escape(Tail(text))

\* lines 340-345: the n-grams of length n of one service name, by start
\* position; an n-gram without a letter is skipped
ngrams_of_length(service, n) ==
    SelectSeq([i \in 1..(Len(service) - n + 1) |-> SubSeq(service, i, i + n - 1)],
              LAMBDA substring :
                  \E k \in DOMAIN substring : substring[k] \in Letters)

\* lines 337-345: the n-grams of one service name from length n on
RECURSIVE ngrams_from(_, _)
ngrams_from(service, n) ==
    IF n >= Min(MAX_PATTERN_LENGTH, Len(service) + 1) THEN <<>>
    ELSE ngrams_of_length(service, n) \o ngrams_from(service, n + 1)

\* lines 332-345
RECURSIVE ngrams_of(_)
ngrams_of(services) ==
    IF services = <<>> THEN <<>>
    ELSE (IF Len(Head(services)) < MIN_PATTERN_LENGTH THEN <<>>
          ELSE ngrams_from(Head(services), MIN_PATTERN_LENGTH))
         \o ngrams_of(Tail(services))

\* generate_patterns_from_services, lines 326-362: Counter keeps the order
\* of first occurrence
generate_patterns_from_services(services) ==
    IF Len(services) < MinServicesForPatterns THEN <<>>
    ELSE LET ngrams == ngrams_of(services)
             count(g) == Cardinality({k \in DOMAIN ngrams : ngrams[k] = g})
             firsts == SelectSeq([k \in DOMAIN ngrams |-> k], LAMBDA k :
                           /\ \A j \in 1..(k - 1) : ngrams[j] /= ngrams[k]
                           /\ count(ngrams[k]) >= MinNgramCount)
         IN  [k \in DOMAIN firsts |->
                 <<".", "*">> \o re_escape(ngrams[firsts[k]]) \o <<".", "*">>]

\* detect_new_patterns, lines 1280-1296: the patterns handed to add_patterns
detect_new_patterns(history) ==
    LET all_services == [i \in DOMAIN history |-> history[i].key]
    IN  IF Len(all_services) < MinServicesForDetection THEN <<>>
        ELSE generate_patterns_from_services(all_services)

\* --------------------------------- AdaptiveDefenseCompanion.run_continuous
\* the steps of one cycle, lines 1374-1390, and where the loop is after each
CycleSteps == <<"analyze", "detect", "generate", "report">>

step_done(pc, step) ==
    IF pc /= step THEN pc
    ELSE IF step = "analyze" THEN "detect"
    ELSE IF step = "detect" THEN "generate"
    ELSE IF step = "generate" THEN "report"
    ELSE "sleep"

\* faulty variant: every exception ends the loop
on_exception_fatal(kind) == "exited"

\* the except clauses of lines 1391-1396
on_exception(kind) ==
    IF kind = "KeyboardInterrupt" THEN "exited" ELSE "backoff"

\* ---------------------------------------------------------------- LogParser
\* A line of the log takes one unit of the file's size; the file holds the
\* numbers of its lines.

\* _detect_rotation() or _detect_truncation(), lines 135-153 and 161
detect_rotation_or_truncation(p, file) ==
    IF file.inode /= p.last_inode
    THEN [last_position |-> 0, last_inode |-> file.inode,
          last_size |-> Len(file.lines)]
    ELSE IF Len(file.lines) < p.last_size
    THEN [p EXCEPT !.last_position = 0, !.last_size = Len(file.lines)]
    ELSE [p EXCEPT !.last_size = Len(file.lines)]

\* read_new_lines, lines 155-177: seek to last_position, readlines, tell; a
\* seek past the end of the file reads nothing and stays where it is
read_new_lines(p, file) ==
    LET q == detect_rotation_or_truncation(p, file)
        size == Len(file.lines)
    IN  IF q.last_position >= size
        THEN [parser |-> q, new_lines |-> <<>>]
        ELSE [parser |-> [q EXCEPT !.last_position = size],
              new_lines |-> SubSeq(file.lines, q.last_position + 1, size)]

\* ----------------------------------------------------- CountermeasureService
\* active_countermeasures: a dict from cm_id to its entry; the stop flag of
\* an entry is named by the number of the thread the entry was made for
NoEntries == [cm_id \in {} |-> [thread |-> 0, stop_flag |-> 0]]
NotDeploying == [pc |-> "idle", cm_id |-> "", thread |-> 0]

\* the dict with the entry of cm_id set / deleted
WithEntry(entries, cm_id, entry) ==
    [k \in DOMAIN entries \cup {cm_id} |->
        IF k = cm_id THEN entry ELSE entries[k]]
WithoutEntry(entries, cm_id) ==
    [k \in DOMAIN entries \ {cm_id} |-> entries[k]]

\* --------------------------------------------------------- SecuritySupervisor
NoProc == 0
max_failures == 5
\* run() has set running and is inside start_services; the monitor thread
\* and the re-enable thread do not exist yet
SupervisorStart == [main |-> "start_check", monitor |-> "unstarted",
                    reenable |-> "none"]

\* =================================================================== state
NoSteps == [analyze |-> 0, observe |-> 0, score |-> 0, match |-> 0, wake |-> 0,
            detect |-> 0]

NoCall == [op |-> "init", arg |-> <<>>, before |-> <<>>, at |-> 0, out |-> <<>>]

\* The state after AdaptiveDefenseCompanion.__init__ on a fresh installation:
\* no countermeasure or metrics file, and the default patterns written by
\* _load_patterns (lines 200-224; its _save_patterns makes the version 2)
Init ==
    /\ now = 0
    /\ ticks = 0
    /\ adds = 0
    /\ observations = 0
    /\ restarts = 0
    /\ admits = 0
    /\ recorded = 0
    /\ correlated = 0
    /\ steps = NoSteps
    /\ loop_pc = "idle"
    /\ countermeasures = <<>>
    /\ effectiveness_metrics = EmptyMetrics
    /\ cm_file = <<>>
    /\ metrics_file = EmptyMetrics
    /\ patterns = [patterns |-> DefaultPatterns, version |-> 2]
    /\ pattern_cache = {}
    /\ pattern_file = [patterns |-> DefaultPatterns, version |-> 2]
    /\ events = NoEvents
    /\ trigger_correlations = <<>>
    /\ service_stats = <<>>
    /\ threat_scores = <<>>
    /\ kill_history = <<>>
    /\ resurrection_patterns = <<>>
    /\ last_call = NoCall
    /\ log_file = [inode |-> 1, lines |-> <<>>]
    /\ parser = [last_position |-> 0, last_inode |-> 1, last_size |-> 0]
    /\ log_changed = FALSE
    /\ lines_written = 0
    /\ active_countermeasures = NoEntries
    /\ handlers = <<>>
    /\ stop_flags = {}
    /\ deploying = NotDeploying
    /\ service_proc = NoProc
    /\ service_restart = TRUE
    /\ failure_counts = 0
    /\ children = {}
    /\ launched = 0
    /\ supervisor_pc = SupervisorStart

\* ----------------------------------------------------------------- actions
\* Time passes between two operations.
Tick(d) ==
    /\ ticks < MaxTicks
    /\ now' = now + d
    /\ ticks' = ticks + 1
    /\ last_call' = [op |-> "tick", arg |-> d, before |-> <<>>, at |-> now, out |-> <<>>]
    /\ UNCHANGED <<otherVars, steps, loop_pc, adds, observations, restarts, admits, recorded, correlated, cmVars, patternVars,
                   triggerVars, scorerVars, engineVars>>

\* CountermeasureManager.add_countermeasure(c), lines 685-733, and its
\* _save_countermeasures (lines 619-633): the list is cleaned before the file
\* is opened, so a failing write keeps the cleaned list in memory.
AddCountermeasure(c, write_ok) ==
    /\ adds < MaxAdds
    /\ countermeasures' = add_countermeasure(countermeasures, c, now)
    /\ cm_file' = IF write_ok THEN countermeasures' ELSE cm_file
    /\ now' = now + 1
    /\ adds' = adds + 1
    /\ last_call' = [op |-> "add", arg |-> c, before |-> countermeasures,
                     at |-> now, out |-> write_ok]
    /\ UNCHANGED <<otherVars, steps, loop_pc, ticks, observations, restarts, admits, recorded, correlated,
                   effectiveness_metrics, metrics_file, patternVars, triggerVars,
                   scorerVars, engineVars>>

\* CountermeasureManager.update_effectiveness(service, killed), lines 869-915,
\* with its _save_effectiveness_metrics (lines 650-660)
UpdateEffectiveness(service, killed, write_ok) ==
    /\ observations < MaxObservations
    /\ observations' = observations + 1
    /\ LET r == update_effectiveness(countermeasures, effectiveness_metrics,
                                     service, killed, now)
       IN  /\ countermeasures' = r.cms
           /\ effectiveness_metrics' = r.metrics
    /\ metrics_file' = IF write_ok THEN effectiveness_metrics' ELSE metrics_file
    /\ last_call' = [op |-> "update", arg |-> <<service, killed>>,
                     before |-> countermeasures, at |-> now, out |-> write_ok]
    /\ UNCHANGED <<otherVars, steps, loop_pc, now, ticks, adds, restarts, admits, recorded, correlated, cm_file, patternVars,
                   triggerVars, scorerVars, engineVars>>

\* AdaptiveDefenseCompanion.generate_countermeasures lines 1313-1319: the
\* escalated copies of the ineffective countermeasures, in list order
RECURSIVE escalations(_, _, _, _)
escalations(cms, metrics, t, n) ==
    IF n = 0 THEN <<>>
    ELSE escalations(cms, metrics, t, n - 1)
         \o (IF n \in ineffective_indices(cms, metrics, EFFECTIVENESS_THRESHOLD)
             THEN <<escalate_countermeasure(cms[n], t)>> ELSE <<>>)

\* lines 1321-1325: the list after each add_countermeasure of the cycle;
\* the k-th call reads the clock at t + k - 1
RECURSIVE add_all(_, _, _, _)
add_all(cms, new, t, n) ==
    IF n = 0 THEN <<cms>>
    ELSE LET prev == add_all(cms, new, t, n - 1)
         IN  Append(prev, add_countermeasure(prev[n], new[n], t + n - 1))

\* AdaptiveDefenseCompanion.generate_countermeasures, lines 1298-1330.
\* Every add saves; the last save whose file write succeeds is the one of
\* add number Min(written, number of adds) (0: no write succeeds); a cycle
\* without an add saves nothing.
GenerateCycle(written) ==
    LET scores == calculate_threat_scores(service_stats, threat_scores, now)
        strong == get_strong_correlations(trigger_correlations, DefaultMinCount)
        generated == generate_countermeasures(resurrection_patterns, strong, scores)
        new == generated
               \o escalations(countermeasures, effectiveness_metrics, now,
                              Len(countermeasures))
        lists == add_all(countermeasures, new, now, Len(new))
    IN  /\ adds + Len(new) <= MaxAdds
        /\ written >= 0
        /\ threat_scores' = scores
        /\ countermeasures' = lists[Len(new) + 1]
        /\ cm_file' = IF written = 0 \/ new = <<>> THEN cm_file
                      ELSE lists[Min(written, Len(new)) + 1]
        /\ now' = now + Len(new)
        /\ adds' = adds + Len(new)
        /\ last_call' = [op |-> "generate", arg |-> new, before |-> countermeasures,
                         at |-> now,
                         out |-> [strong |-> strong, generated |-> generated,
                                  ineffective |-> ineffective_indices(
                                      countermeasures, effectiveness_metrics,
                                      EFFECTIVENESS_THRESHOLD)]]
        /\ loop_pc' = step_done(loop_pc, "generate")
        /\ UNCHANGED <<otherVars, steps, ticks, observations, restarts, admits, recorded, correlated,
                       effectiveness_metrics, metrics_file, patternVars,
                       triggerVars, service_stats, engineVars>>

\* The process is started again: AdaptiveDefenseCompanion.__init__ (lines
\* 1144-1166) builds every component anew; the countermeasure list, the
\* metrics and the patterns are read back from their files (lines 603-617,
\* 635-648, 189-198).  A metrics file that cannot be read gives empty metrics.
Restart(metrics_read_ok) ==
    /\ restarts < MaxRestarts
    /\ restarts' = restarts + 1
    /\ countermeasures' = cm_file
    /\ effectiveness_metrics' = IF metrics_read_ok THEN metrics_file ELSE EmptyMetrics
    /\ patterns' = pattern_file
    /\ pattern_cache' = {}
    /\ events' = NoEvents
    /\ trigger_correlations' = <<>>
    /\ service_stats' = <<>>
    /\ threat_scores' = <<>>
    /\ kill_history' = <<>>
    /\ resurrection_patterns' = <<>>
    /\ last_call' = [op |-> "restart", arg |-> metrics_read_ok,
                     before |-> countermeasures, at |-> now, out |-> <<>>]
    /\ loop_pc' = "idle"
    /\ UNCHANGED <<otherVars, steps, now, ticks, adds, observations, admits, recorded, correlated,
                   cm_file,
                   metrics_file, pattern_file>>

\* PatternManager.add_patterns(new_patterns), lines 249-277, with the
\* _save_patterns (lines 229-247) it calls when something was admitted: the
\* version is raised in memory before the file is written
AddPatterns(new_patterns, write_ok) ==
    LET unique == unique_patterns(patterns.patterns, new_patterns)
        saved == [patterns |-> patterns.patterns \o unique,
                  version |-> patterns.version + 1]
    IN  /\ admits < MaxAdmits
        /\ admits' = admits + 1
        /\ patterns' = IF unique = <<>> THEN patterns ELSE saved
        /\ pattern_file' = IF unique /= <<>> /\ write_ok THEN saved ELSE pattern_file
        /\ pattern_cache' = IF unique = <<>> THEN pattern_cache ELSE {}
        /\ last_call' = [op |-> "admit", arg |-> new_patterns,
                         before |-> patterns.patterns, at |-> now,
                         out |-> [unique |-> unique,
                                  repeated |-> last_call.op = "admit"
                                               /\ last_call.arg = new_patterns,
                                  cache_before |-> pattern_cache]]
        /\ UNCHANGED <<otherVars, steps, loop_pc, now, ticks, adds, observations, restarts, recorded,
                       correlated, cmVars, triggerVars, scorerVars, engineVars>>

\* TriggerAnalyzer.record_event(event_type, timestamp, details), lines 379-407
RecordEvent(event_type, timestamp, details) ==
    /\ recorded < MaxRecorded
    /\ recorded' = recorded + 1
    /\ events' = record_event(events, event_type, timestamp, details)
    /\ last_call' = [op |-> "record", arg |-> <<event_type, timestamp, details>>,
                     before |-> events, at |-> now, out |-> <<>>]
    /\ UNCHANGED <<otherVars, steps, loop_pc, now, ticks, adds, observations, restarts, admits, correlated,
                   cmVars, patternVars, trigger_correlations, scorerVars,
                   engineVars>>

\* TriggerAnalyzer.check_resurrection_triggers(service, resurrection_time),
\* lines 409-495: returns the triggers and counts each of them
CheckResurrectionTriggers(service, resurrection_time) ==
    LET r == check_resurrection_triggers(events, trigger_correlations, service,
                                         resurrection_time)
    IN  /\ correlated < MaxCorrelations
        /\ correlated' = correlated + 1
        /\ trigger_correlations' = r.corr
        /\ last_call' = [op |-> "correlate", arg |-> <<service, resurrection_time>>,
                         before |-> events, at |-> now, out |-> r.triggers]
        /\ UNCHANGED <<otherVars, steps, loop_pc, now, ticks, adds, observations, restarts, admits, recorded,
                       cmVars, patternVars, events, scorerVars, engineVars>>

\* AdaptiveDefenseCompanion.analyze_logs, lines 1168-1278, on the new lines
\* the log parsers return in this cycle; every update_effectiveness saves
\* the metrics (line 915)
AnalyzeLogs(lines, write_ok) ==
    LET before == [kill_history |-> kill_history,
                   resurrection_patterns |-> resurrection_patterns,
                   events |-> events, corr |-> trigger_correlations,
                   stats |-> service_stats, cms |-> countermeasures,
                   metrics |-> effectiveness_metrics, cache |-> pattern_cache,
                   saves |-> 0, kills |-> 0, resurrections |-> 0]
        after == process_lines(before, patterns.patterns, lines, now)
    IN  /\ steps.analyze < MaxAnalyses
        /\ steps' = [steps EXCEPT !.analyze = @ + 1]
        /\ kill_history' = after.kill_history
        /\ resurrection_patterns' = after.resurrection_patterns
        /\ events' = after.events
        /\ trigger_correlations' = after.corr
        /\ service_stats' = after.stats
        /\ countermeasures' = after.cms
        /\ effectiveness_metrics' = after.metrics
        /\ pattern_cache' = after.cache
        /\ metrics_file' = IF after.saves > 0 /\ write_ok THEN after.metrics
                           ELSE metrics_file
        /\ last_call' = [op |-> "analyze", arg |-> lines, before |-> before,
                         at |-> now,
                         out |-> <<after.kills, after.resurrections>>]
        /\ loop_pc' = step_done(loop_pc, "analyze")
        /\ UNCHANGED <<otherVars, now, ticks, adds, observations, restarts, admits, recorded,
                       correlated, cm_file, patterns, pattern_file,
                       threat_scores>>

\* ThreatScorer.update_service_stats(service, killed, resurrection_time),
\* lines 1022-1046
UpdateServiceStats(service, killed, resurrection_time) ==
    /\ steps.observe < MaxObserved
    /\ steps' = [steps EXCEPT !.observe = @ + 1]
    /\ service_stats' = update_service_stats(service_stats, service, killed,
                                             resurrection_time, now)
    /\ last_call' = [op |-> "observe", arg |-> <<service, killed, resurrection_time>>,
                     before |-> service_stats, at |-> now, out |-> <<>>]
    /\ UNCHANGED <<otherVars, now, ticks, adds, observations, restarts, admits, recorded,
                   correlated, loop_pc, cmVars, patternVars, triggerVars,
                   threat_scores, engineVars>>

\* ThreatScorer.add_pattern_match(service, pattern), lines 1048-1053
AddPatternMatch(service, pattern) ==
    /\ steps.observe < MaxObserved
    /\ steps' = [steps EXCEPT !.observe = @ + 1]
    /\ service_stats' = add_pattern_match(service_stats, service, pattern, now)
    /\ last_call' = [op |-> "pattern_match", arg |-> <<service, pattern>>,
                     before |-> service_stats, at |-> now, out |-> <<>>]
    /\ UNCHANGED <<otherVars, now, ticks, adds, observations, restarts, admits, recorded,
                   correlated, loop_pc, cmVars, patternVars, triggerVars,
                   threat_scores, engineVars>>

\* ThreatScorer.calculate_threat_scores(), lines 1055-1089: returns
\* self.threat_scores
CalculateThreatScores ==
    /\ steps.score < MaxScorings
    /\ steps' = [steps EXCEPT !.score = @ + 1]
    /\ threat_scores' = calculate_threat_scores(service_stats, threat_scores, now)
    /\ last_call' = [op |-> "score", arg |-> <<>>, before |-> threat_scores,
                     at |-> now, out |-> threat_scores']
    /\ UNCHANGED <<otherVars, now, ticks, adds, observations, restarts, admits, recorded,
                   correlated, loop_pc, cmVars, patternVars, triggerVars,
                   service_stats, engineVars>>

\* AdaptiveDefenseCompanion.report_high_threats(), lines 1332-1351: logs and
\* notifies the threats of get_high_priority_threats()
ReportHighThreats ==
    /\ steps.score < MaxScorings
    /\ steps' = [steps EXCEPT !.score = @ + 1]
    /\ last_call' = [op |-> "report", arg |-> <<>>, before |-> threat_scores,
                     at |-> now,
                     out |-> get_high_priority_threats(threat_scores, service_stats,
                                                       HighPriorityThreshold)]
    /\ loop_pc' = step_done(loop_pc, "report")
    /\ UNCHANGED <<otherVars, now, ticks, adds, observations, restarts, admits, recorded,
                   correlated, cmVars, patternVars, triggerVars,
                   scorerVars, engineVars>>

\* PatternManager.match_pattern(text), lines 306-324
MatchPattern(text) ==
    LET m == match_pattern(patterns.patterns, pattern_cache, text)
    IN  /\ steps.match < MaxMatches
        /\ steps' = [steps EXCEPT !.match = @ + 1]
        /\ pattern_cache' = m.cache
        /\ last_call' = [op |-> "match", arg |-> text,
                         before |-> [patterns |-> patterns.patterns,
                                     cache |-> pattern_cache],
                         at |-> now, out |-> m.matched]
        /\ UNCHANGED <<otherVars, now, ticks, adds, observations, restarts, admits, recorded,
                       correlated, loop_pc, cmVars, patterns, pattern_file,
                       triggerVars, scorerVars, engineVars>>

\* AdaptiveDefenseCompanion.detect_new_patterns, lines 1280-1296, with the
\* add_patterns (lines 249-277) and _save_patterns (lines 229-247) it calls
DetectNewPatterns(write_ok) ==
    LET new_patterns == detect_new_patterns(kill_history)
        unique == unique_patterns(patterns.patterns, new_patterns)
        saved == [patterns |-> patterns.patterns \o unique,
                  version |-> patterns.version + 1]
    IN  /\ steps.detect < MaxDetections
        /\ steps' = [steps EXCEPT !.detect = @ + 1]
        /\ patterns' = IF unique = <<>> THEN patterns ELSE saved
        /\ pattern_file' = IF unique /= <<>> /\ write_ok THEN saved ELSE pattern_file
        /\ pattern_cache' = IF unique = <<>> THEN pattern_cache ELSE {}
        /\ loop_pc' = step_done(loop_pc, "detect")
        /\ last_call' = [op |-> "detect", arg |-> new_patterns, before |-> patterns,
                         at |-> now,
                         out |-> [unique |-> unique, write_ok |-> write_ok]]
        /\ UNCHANGED <<otherVars, now, ticks, adds, observations, restarts, admits, recorded,
                       correlated, cmVars, triggerVars, scorerVars, engineVars>>

\* run_continuous is called, lines 1366-1373
StartLoop ==
    /\ loop_pc = "idle"
    /\ loop_pc' = "analyze"
    /\ last_call' = [op |-> "start", arg |-> <<>>, before |-> loop_pc, at |-> now,
                     out |-> <<>>]
    /\ UNCHANGED <<otherVars, now, ticks, adds, observations, restarts, admits, recorded,
                   correlated, steps, cmVars, patternVars, triggerVars, scorerVars,
                   engineVars>>

\* time.sleep(interval) of line 1390 returns
SleepDone ==
    /\ loop_pc = "sleep"
    /\ steps.wake < MaxWakes
    /\ steps' = [steps EXCEPT !.wake = @ + 1]
    /\ now' = now + ANALYSIS_INTERVAL
    /\ loop_pc' = "analyze"
    /\ last_call' = [op |-> "wake", arg |-> <<>>, before |-> loop_pc, at |-> now,
                     out |-> <<>>]
    /\ UNCHANGED <<otherVars, ticks, adds, observations, restarts, admits, recorded,
                   correlated, cmVars, patternVars, triggerVars, scorerVars,
                   engineVars>>

\* a step of the cycle raises an exception that is not a KeyboardInterrupt:
\* lines 1394-1396 up to the call of time.sleep(60)
CycleError ==
    /\ \E k \in DOMAIN CycleSteps : loop_pc = CycleSteps[k]
    /\ loop_pc' = on_exception("Exception")
    /\ last_call' = [op |-> "error", arg |-> <<>>, before |-> loop_pc, at |-> now,
                     out |-> <<>>]
    /\ UNCHANGED <<otherVars, now, ticks, adds, observations, restarts, admits, recorded,
                   correlated, steps, cmVars, patternVars, triggerVars, scorerVars,
                   engineVars>>

\* time.sleep(60) of line 1396 returns
BackoffDone ==
    /\ loop_pc = "backoff"
    /\ steps.wake < MaxWakes
    /\ steps' = [steps EXCEPT !.wake = @ + 1]
    /\ now' = now + ErrorBackoff
    /\ loop_pc' = "analyze"
    /\ last_call' = [op |-> "wake", arg |-> <<>>, before |-> loop_pc, at |-> now,
                     out |-> <<>>]
    /\ UNCHANGED <<otherVars, ticks, adds, observations, restarts, admits, recorded,
                   correlated, cmVars, patternVars, triggerVars, scorerVars,
                   engineVars>>

\* the user interrupts the process: inside the try block (a cycle step or the
\* sleep of line 1390) lines 1391-1393 log and break; during the backoff of
\* line 1396 the KeyboardInterrupt leaves run_continuous uncaught
KeyboardInterrupt ==
    /\ loop_pc \notin {"idle", "exited"}
    /\ loop_pc' = IF loop_pc = "backoff" THEN "exited"
                  ELSE on_exception("KeyboardInterrupt")
    /\ last_call' = [op |-> "interrupt", arg |-> <<>>, before |-> loop_pc,
                     at |-> now, out |-> <<>>]
    /\ UNCHANGED <<otherVars, now, ticks, adds, observations, restarts, admits, recorded,
                   correlated, steps, cmVars, patternVars, triggerVars, scorerVars,
                   engineVars>>

\* escalate_countermeasure(cm) for the i-th list entry, lines 974-1010, and
\* the add_countermeasure of the escalated copy, as lines 1316-1323 do for
\* an ineffective entry
EscalateAndAdd(i, write_ok) ==
    /\ adds < MaxAdds
    /\ i \in DOMAIN countermeasures
    /\ LET escalated == escalate_countermeasure(countermeasures[i], now)
       IN  /\ countermeasures' = add_countermeasure(countermeasures, escalated, now)
           /\ last_call' = [op |-> "escalate", arg |-> countermeasures[i],
                            before |-> countermeasures, at |-> now,
                            out |-> escalated]
    /\ cm_file' = IF write_ok THEN countermeasures' ELSE cm_file
    /\ now' = now + 1
    /\ adds' = adds + 1
    /\ UNCHANGED <<otherVars, steps, loop_pc, ticks, observations, restarts, admits, recorded,
                   correlated, effectiveness_metrics, metrics_file, patternVars,
                   triggerVars, scorerVars, engineVars>>

\* PatternManager.generate_patterns_from_services(services), lines 326-362
GeneratePatternsFromServices(services) ==
    /\ last_call' = [op |-> "propose", arg |-> services, before |-> <<>>,
                     at |-> now,
                     out |-> generate_patterns_from_services(services)]
    /\ UNCHANGED <<otherVars, steps, loop_pc, now, ticks, adds, observations, restarts, admits,
                   recorded, correlated, cmVars, patternVars, triggerVars,
                   scorerVars, engineVars>>

\* a writer appends a line to the log file
AppendLine ==
    /\ lines_written < MaxWritten
    /\ lines_written' = lines_written + 1
    /\ log_file' = [log_file EXCEPT !.lines = Append(@, lines_written + 1)]
    /\ UNCHANGED <<companionVars, executorVars, supervisorVars, last_call, parser, log_changed>>

\* the log file is truncated in place (same inode)
TruncateLog ==
    /\ log_file.lines /= <<>>
    /\ log_file' = [log_file EXCEPT !.lines = <<>>]
    /\ log_changed' = TRUE
    /\ UNCHANGED <<companionVars, executorVars, supervisorVars, last_call, parser, lines_written>>

\* the log file is rotated: a new, empty file takes its path
RotateLog ==
    /\ log_file.inode <= MaxRotations
    /\ log_file' = [inode |-> log_file.inode + 1, lines |-> <<>>]
    /\ log_changed' = TRUE
    /\ UNCHANGED <<companionVars, executorVars, supervisorVars, last_call, parser, lines_written>>

\* LogParser.read_new_lines(), lines 155-177
ReadNewLines ==
    LET r == read_new_lines(parser, log_file)
    IN  /\ parser' = r.parser
        /\ log_changed' = FALSE
        /\ last_call' = [op |-> "read_lines", arg |-> log_file,
                         before |-> [parser |-> parser, changed |-> log_changed],
                         at |-> now, out |-> r.new_lines]
        /\ UNCHANGED <<companionVars, executorVars, supervisorVars, log_file, lines_written>>

\* CountermeasureService._deploy_countermeasure, lines 146-171: a handler
\* of cm_id that runs is stopped (lines 156-157), then the handler thread is
\* started
DeployStartThread(cm_id) ==
    /\ deploying.pc = "idle"
    /\ Len(handlers) < MaxDeploys
    /\ stop_flags' = IF cm_id \in DOMAIN active_countermeasures
                     THEN stop_flags \cup {active_countermeasures[cm_id].stop_flag}
                     ELSE stop_flags
    /\ active_countermeasures' = WithoutEntry(active_countermeasures, cm_id)
    /\ handlers' = Append(handlers, [cm_id |-> cm_id, pc |-> "started", stop_flag |-> 0])
    /\ deploying' = [pc |-> "track", cm_id |-> cm_id, thread |-> Len(handlers) + 1]
    /\ UNCHANGED <<companionVars, last_call, parserVars, supervisorVars>>

\* _deploy_countermeasure, lines 173-179: the entry with a new stop flag is
\* stored
DeployTrack ==
    /\ deploying.pc = "track"
    /\ active_countermeasures' =
           WithEntry(active_countermeasures, deploying.cm_id,
                     [thread |-> deploying.thread, stop_flag |-> deploying.thread])
    /\ deploying' = NotDeploying
    /\ UNCHANGED <<companionVars, last_call, parserVars, supervisorVars,
                   handlers, stop_flags>>

\* the first statement of every handler (e.g. line 343):
\* stop_flag = self.active_countermeasures[cm_id]["stop_flag"]; a missing
\* key raises KeyError and ends the thread
HandlerReadsStopFlag(t) ==
    /\ t \in DOMAIN handlers
    /\ handlers[t].pc = "started"
    /\ handlers' = IF handlers[t].cm_id \in DOMAIN active_countermeasures
                   THEN [handlers EXCEPT
                            ![t].pc = "waiting",
                            ![t].stop_flag =
                                active_countermeasures[handlers[t].cm_id].stop_flag]
                   ELSE [handlers EXCEPT ![t].pc = "crashed"]
    /\ UNCHANGED <<companionVars, last_call, parserVars, supervisorVars,
                   active_countermeasures, stop_flags, deploying>>

\* the handler's loop sees its stop flag set (e.g. lines 353, 379) and returns
HandlerExits(t) ==
    /\ t \in DOMAIN handlers
    /\ handlers[t].pc = "waiting"
    /\ handlers[t].stop_flag \in stop_flags
    /\ handlers' = [handlers EXCEPT ![t].pc = "exited"]
    /\ UNCHANGED <<companionVars, last_call, parserVars, supervisorVars,
                   active_countermeasures, stop_flags, deploying>>

\* CountermeasureService._stop_countermeasure(cm_id), lines 181-197; the
\* join gives up after 5 s, so the handler may exit before or after it
StopCountermeasure(cm_id) ==
    /\ deploying.pc = "idle"
    /\ cm_id \in DOMAIN active_countermeasures
    /\ stop_flags' = stop_flags \cup {active_countermeasures[cm_id].stop_flag}
    /\ active_countermeasures' = WithoutEntry(active_countermeasures, cm_id)
    /\ UNCHANGED <<companionVars, last_call, parserVars, supervisorVars,
                   handlers, deploying>>

\* where a thread goes when its _start_service call is over
after_start_service(thread, pc) ==
    IF thread = "main" THEN "idle"
    ELSE IF thread = "reenable" THEN "none"
    ELSE IF pc \in {"backoff_check", "backoff_launch"} THEN "scan"
    ELSE "sleep"

\* run() starts the monitor thread when start_services has returned
\* (lines 176-181)
with_monitor(pcs) ==
    IF pcs.monitor = "unstarted" /\ pcs.main = "idle"
    THEN [pcs EXCEPT !.monitor = "poll"]
    ELSE pcs

\* SecuritySupervisor._start_service, lines 100-108: the test of restart
\* and proc (the executable exists)
StartServiceCheck(thread) ==
    LET pc == supervisor_pc[thread]
        launch_pc == IF pc = "start_check" THEN "start_launch"
                     ELSE IF pc = "restart_check" THEN "restart_launch"
                     ELSE IF pc = "backoff_check" THEN "backoff_launch"
                     ELSE IF pc = "scan" THEN "scan_launch"
                     ELSE "launch"
    IN  /\ pc \in {"start_check", "restart_check", "backoff_check", "scan", "check"}
        /\ supervisor_pc' = with_monitor([supervisor_pc EXCEPT ![thread] =
               IF service_restart /\ service_proc = NoProc THEN launch_pc
               ELSE after_start_service(thread, pc)])
        /\ UNCHANGED <<companionVars, last_call, parserVars, executorVars,
                       service_proc, service_restart, failure_counts, children,
                       launched>>

\* _start_service, lines 110-126: Popen starts a child and proc is set, or
\* the launch raises and the failure is counted
StartServiceLaunch(thread, ok) ==
    LET pc == supervisor_pc[thread]
    IN  /\ pc \in {"start_launch", "restart_launch", "backoff_launch",
                   "scan_launch", "launch"}
        /\ IF ok
           THEN /\ launched < MaxLaunches
                /\ launched' = launched + 1
                /\ children' = children \cup {launched + 1}
                /\ service_proc' = launched + 1
                /\ UNCHANGED failure_counts
           ELSE /\ failure_counts < MaxCounted
                /\ failure_counts' = failure_counts + 1
                /\ UNCHANGED <<launched, children, service_proc>>
        /\ supervisor_pc' = with_monitor([supervisor_pc EXCEPT ![thread] =
               after_start_service(thread, pc)])
        /\ UNCHANGED <<companionVars, last_call, parserVars, executorVars,
                       service_restart>>

\* monitor_services, lines 133-161: the poll of the child; an exit is
\* counted, at max_failures the service is disabled and the re-enable
\* thread started, else the service is started again after the backoff
MonitorPoll ==
    /\ supervisor_pc.monitor = "poll"
    /\ IF service_proc /= NoProc /\ service_proc \notin children
       THEN /\ failure_counts < MaxCounted
            /\ service_proc' = NoProc
            /\ failure_counts' = failure_counts + 1
            /\ service_restart' = IF failure_counts' >= max_failures THEN FALSE
                                  ELSE service_restart
            /\ supervisor_pc' =
                   IF failure_counts' >= max_failures
                   THEN [supervisor_pc EXCEPT
                            !.monitor = "scan",
                            !.reenable = IF @ = "none" THEN "sleeping" ELSE @]
                   ELSE IF service_restart
                   THEN [supervisor_pc EXCEPT !.monitor = "backoff_check"]
                   ELSE [supervisor_pc EXCEPT !.monitor = "scan"]
       ELSE /\ supervisor_pc' = [supervisor_pc EXCEPT !.monitor = "scan"]
            /\ UNCHANGED <<service_proc, failure_counts, service_restart>>
    /\ UNCHANGED <<companionVars, last_call, parserVars, executorVars, children,
                   launched>>

\* monitor_services, line 169: time.sleep(5) returns
MonitorSleepDone ==
    /\ supervisor_pc.monitor = "sleep"
    /\ supervisor_pc' = [supervisor_pc EXCEPT !.monitor = "poll"]
    /\ UNCHANGED <<companionVars, last_call, parserVars, executorVars,
                   service_proc, service_restart, failure_counts, children,
                   launched>>

\* reenable_service, lines 149-153: the 600 s have passed
ReenableWake ==
    /\ supervisor_pc.reenable = "sleeping"
    /\ service_restart' = TRUE
    /\ failure_counts' = 0
    /\ supervisor_pc' = [supervisor_pc EXCEPT !.reenable = "check"]
    /\ UNCHANGED <<companionVars, last_call, parserVars, executorVars,
                   service_proc, children, launched>>

\* _check_service_health finds the log of the running service stale and
\* calls _restart_service, lines 217-238: the child is killed, proc cleared
HealthCheckRestart ==
    /\ supervisor_pc.main = "idle"
    /\ service_proc /= NoProc
    /\ children' = children \ {service_proc}
    /\ service_proc' = NoProc
    /\ supervisor_pc' = [supervisor_pc EXCEPT !.main = "restart_check"]
    /\ UNCHANGED <<companionVars, last_call, parserVars, executorVars,
                   service_restart, failure_counts, launched>>

\* a child process of the service exits
ChildExits(child) ==
    /\ child \in children
    /\ children' = children \ {child}
    /\ UNCHANGED <<companionVars, last_call, parserVars, executorVars,
                   service_proc, service_restart, failure_counts, launched,
                   supervisor_pc>>

\* ---------------------------------------------------------- specifications
\* inputs of add_countermeasure: what generate_countermeasures and
\* escalate_countermeasure build
KillIntervals == {1, 2}
CombinedProposal(service) ==
    [Proposal("combined_strategy", service, AggressiveInterval, DefaultSeverity)
        EXCEPT !.components = <<"screen_state_hook", "preemptive_kill">>]
Proposals ==
    {Proposal("preemptive_kill", SvcA, i, DefaultSeverity) : i \in KillIntervals}
    \cup {Proposal(h, SvcA, NoInt, DefaultSeverity) :
              h \in {"screen_state_hook", "network_hook"}}
    \cup {CombinedProposal(SvcA)}
    \cup {Proposal("screen_state_hook", SvcB, NoInt, DefaultSeverity)}


\* the countermeasure list under add_countermeasure alone
NextAdd ==
    \/ Tick(COUNTERMEASURE_TTL)
    \/ \E c \in Proposals, ok \in BOOLEAN : AddCountermeasure(c, ok)

SpecAdd == Init /\ [][NextAdd]_vars

\* the whole countermeasure lifecycle: adds, resurrection and kill
\* observations, the engine's generation step, and restarts of the process
LifeProposals ==
    {Proposal("preemptive_kill", SvcA, 1, DefaultSeverity),
     Proposal("screen_state_hook", SvcA, NoInt, DefaultSeverity)}
LifeObservations == {<<SvcA, FALSE>>, <<SvcA, TRUE>>, <<SvcB, FALSE>>}

NextLife ==
    \/ Tick(MinActiveSeconds)
    \/ \E c \in LifeProposals :
           adds < MaxLifeAdds /\ AddCountermeasure(c, TRUE)
    \/ \E o \in LifeObservations : UpdateEffectiveness(o[1], o[2], TRUE)
    \/ GenerateCycle(MaxLifeAdds) /\ adds' <= MaxLifeAdds
    \/ \E ok \in BOOLEAN : Restart(ok)

SpecLife == Init /\ [][NextLife]_vars

\* the pattern store under add_patterns: the candidates ".*myKLMSsvc.*"
\* (contains the core of a default pattern), ".*abcde.*", ".*abcdx.*" (one
\* edit away from it) and ".*bcde.*" (contained in it); a batch is a
\* sub-list of them
Candidates ==
    << <<".", "*", "m", "y", "K", "L", "M", "S", "s", "v", "c", ".", "*">>,
       <<".", "*", "a", "b", "c", "d", "e", ".", "*">>,
       <<".", "*", "a", "b", "c", "d", "x", ".", "*">>,
       <<".", "*", "b", "c", "d", "e", ".", "*">> >>

SubList(chosen) ==
    LET idx == SelectSeq([i \in DOMAIN Candidates |-> i], LAMBDA i : i \in chosen)
    IN  [k \in DOMAIN idx |-> Candidates[idx[k]]]

Batches ==
    {SubList(chosen) : chosen \in {c \in SUBSET (DOMAIN Candidates) :
                                       Cardinality(c) <= MaxBatch}}

NextPat ==
    \E batch \in Batches, ok \in BOOLEAN : AddPatterns(batch, ok)

SpecPat == Init /\ [][NextPat]_vars

\* trigger correlation: ambient events at 10 s and 15 s, resurrections at
\* 12 s (2 s and 3 s away) and 20 s (10 s and 5 s away), and the engine's
\* generation step
EventTimes == {10, 15}
ResurrectionTimes == {12, 20}
RecordedTypes == {"screen_state", "network"}

NextTrig ==
    \/ \E e \in RecordedTypes, t \in EventTimes :
           recorded < MaxEvents /\ RecordEvent(e, t, <<e, t>>)
    \/ \E s \in Services, t \in ResurrectionTimes : CheckResurrectionTriggers(s, t)
    \/ GenerateCycle(MaxAdds)

SpecTrig == Init /\ [][NextTrig]_vars

\* the generation step on resurrection intervals: each analysis reads one
\* [PATTERN] line, of subject "x" (after 29, 30 or 31 s) or of subject "y"
\* (after 1 or 30 s); the generation step runs until it has proposed
\* something
SvcX == <<"x">>
SvcY == <<"y">>
PatternLines ==
    {LogLine("pattern", SvcX, NoInt, v) : v \in {29, 30, 31}}
    \cup {LogLine("pattern", SvcY, NoInt, v) : v \in {1, 30}}

NextGen ==
    \/ \E line \in PatternLines : AnalyzeLogs(<<line>>, TRUE)
    \/ adds = 0 /\ GenerateCycle(MaxAdds)

SpecGen == Init /\ [][NextGen]_vars

\* the threat scorer: kills, fast (5 s) and slow (70 s) resurrections and
\* pattern matches of one subject, scoring and reporting, and the clock
\* moving by seven days
ScorerPatterns == {DefaultPatterns[1], DefaultPatterns[2]}

NextScore ==
    \/ Tick(SevenDays)
    \/ steps.observe < MaxStatsUpdates /\ UpdateServiceStats(SvcX, TRUE, NoInt)
    \/ \E seconds \in {5, 70} :
           steps.observe < MaxStatsUpdates
           /\ UpdateServiceStats(SvcX, FALSE, seconds)
    \/ \E pattern \in ScorerPatterns :
           steps.observe < MaxStatsUpdates /\ AddPatternMatch(SvcX, pattern)
    \/ CalculateThreatScores
    \/ ReportHighThreats

SpecScore == Init /\ [][NextScore]_vars

\* the event windows under record_event alone: the first events are of any
\* kind, then the kind of the latest event goes on until its window has
\* overflowed; the n-th event carries timestamp n
NextWin ==
    \E e \in EventTypes :
        /\ IF recorded < MaxEvents THEN TRUE ELSE last_call.arg[1] = e
        /\ RecordEvent(e, recorded, <<e, recorded>>)

SpecWin == Init /\ [][NextWin]_vars

\* matching against a store that was given "*abcd" (nothing to repeat: it
\* does not compile) and ".*wxyz.*"; the texts are "wxyz1", "aKLMS", "abcd"
MatchBatches ==
    LET bad == <<"*", "a", "b", "c", "d">>
        good == <<".", "*", "w", "x", "y", "z", ".", "*">>
    IN  {<<bad>>, <<good>>, <<bad, good>>, <<good, bad>>}

MatchTexts ==
    {<<"w", "x", "y", "z", "1">>, <<"a", "K", "L", "M", "S">>,
     <<"a", "b", "c", "d">>}

NextMatch ==
    \/ \E batch \in MatchBatches, ok \in BOOLEAN : AddPatterns(batch, ok)
    \/ \E text \in MatchTexts : MatchPattern(text)

SpecMatch == Init /\ [][NextMatch]_vars

\* log cycles whose new lines mix well-formed [KILL] and [PATTERN] lines
\* with lines that carry a marker but fail extraction
LogLines ==
    {LogLine("kill", SvcX, 10, NoInt),
     LogLine("pattern", SvcX, NoInt, 30),
     LogLine("kill_bad_time", SvcX, NoInt, NoInt),
     LogLine("kill_unmatched", NoId, NoInt, NoInt),
     LogLine("pattern_unmatched", NoId, NoInt, NoInt)}

\* the new lines of one cycle: one or two of these lines
LogBatches ==
    {<<l>> : l \in LogLines} \cup {<<l, m>> : l, m \in LogLines}

NextLog ==
    \/ \E lines \in LogBatches, ok \in BOOLEAN :
           steps.analyze < MaxLogCycles /\ AnalyzeLogs(lines, ok)
    \/ adds = 0 /\ AddCountermeasure(Proposal("preemptive_kill", SvcX, 1,
                                               DefaultSeverity), TRUE)

SpecLog == Init /\ [][NextLog]_vars

\* the engine loop over a log in which three services are killed (two of
\* them share the n-gram "abcd")
SvcP == <<"a", "b", "c", "d", "1">>
SvcQ == <<"a", "b", "c", "d", "2">>
SvcR == <<"w", "x", "y", "z">>

LoopBatches ==
    {<<>>,
     <<LogLine("kill", SvcP, 10, NoInt), LogLine("kill", SvcQ, 11, NoInt),
       LogLine("kill", SvcR, 12, NoInt)>>}

NextLoop ==
    \/ StartLoop
    \/ loop_pc = "analyze" /\ \E lines \in LoopBatches : AnalyzeLogs(lines, TRUE)
    \/ loop_pc = "detect" /\ \E ok \in BOOLEAN : DetectNewPatterns(ok)
    \/ loop_pc = "generate" /\ GenerateCycle(MaxAdds)
    \/ loop_pc = "report" /\ ReportHighThreats
    \/ SleepDone
    \/ CycleError
    \/ BackoffDone
    \/ KeyboardInterrupt

SpecLoop == Init /\ [][NextLoop]_vars

\* time.sleep returns: a sleeping loop goes on
SpecLoopFair == SpecLoop /\ WF_vars(SleepDone) /\ WF_vars(BackoffDone)

\* proposing patterns from observed subjects and admitting them
FooLocationService == <<"F", "o", "o", "L", "o", "c", "a", "t", "i", "o", "n", "S", "e", "r", "v", "i", "c", "e">>
BarLocationService == <<"B", "a", "r", "L", "o", "c", "a", "t", "i", "o", "n", "S", "e", "r", "v", "i", "c", "e">>
BazLocationService == <<"B", "a", "z", "L", "o", "c", "a", "t", "i", "o", "n", "S", "e", "r", "v", "i", "c", "e">>

LocationSubjects == <<FooLocationService, BarLocationService, BazLocationService>>

SvcS == <<"w", "x", "y", "z", "2">>
SvcT == <<"m", "n", "o", "p", "1">>
SvcU == <<"m", "n", "o", "p", "2">>

\* the subject lists fed to propose: the three Location subjects in any
\* order, two of the short subjects, or four of the short subjects
SubjectLists ==
    LET long == {FooLocationService, BarLocationService, BazLocationService}
        short == {SvcP, SvcQ, SvcR, SvcS, SvcT, SvcU}
    IN  {l \in {<<a, b, c>> : a, b, c \in long} :
             l[1] /= l[2] /\ l[1] /= l[3] /\ l[2] /= l[3]}
        \cup {l \in {<<a, b>> : a, b \in short} : l[1] /= l[2]}
        \cup {<<SvcP, SvcQ, SvcR, SvcS>>, <<SvcR, SvcS, SvcP, SvcQ>>}

\* propose, then admit: add_patterns(generate_patterns_from_services(l))
ProposeAndAdmit(services, write_ok) ==
    AddPatterns(generate_patterns_from_services(services), write_ok)

NextPropose ==
    \E services \in SubjectLists, ok \in BOOLEAN : ProposeAndAdmit(services, ok)

SpecPropose == Init /\ [][NextPropose]_vars

\* long runs of observations of two subjects; the interval reported by the
\* k-th call is k, so that the order of the intervals can be told.  After
\* the first MaxStatsUpdates calls the same subject is observed on and on.
HistObservations ==
    {<<SvcX, FALSE, steps.observe + 1>>, <<SvcY, FALSE, steps.observe + 1>>,
     <<SvcX, TRUE, NoInt>>}

NextHist ==
    \E o \in HistObservations :
        /\ IF steps.observe < MaxStatsUpdates THEN TRUE
           ELSE o[1] = last_call.arg[1] /\ o[2] = last_call.arg[2]
        /\ UpdateServiceStats(o[1], o[2], o[3])

SpecHist == Init /\ [][NextHist]_vars

\* escalation of countermeasures of every type the generator builds
EscalationProposals ==
    {Proposal("preemptive_kill", SvcA, i, s) : i \in {1, 3, 30}, s \in {500, 900}}
    \cup {Proposal(h, SvcA, NoInt, s) : h \in HookTypes, s \in {500, 900}}

NextEsc ==
    \/ \E c \in EscalationProposals :
           adds < MaxLifeAdds /\ AddCountermeasure(c, TRUE)
    \/ \E i \in 1..MaxLifeAdds :
           adds < MaxLifeAdds /\ EscalateAndAdd(i, TRUE)

SpecEsc == Init /\ [][NextEsc]_vars

\* engine cycles that generate proposals for one subject while the list
\* holds a countermeasure on another subject: three resurrections of "x" 30 s
\* after its kills are read from the log, a hook on "svc" is added and
\* observed, and the process may be started again
OrderLines ==
    <<LogLine("pattern", SvcX, NoInt, 30), LogLine("pattern", SvcX, NoInt, 30),
      LogLine("pattern", SvcX, NoInt, 30)>>

NextOrder ==
    \/ ticks = 0 /\ Tick(MinActiveSeconds)
    \/ adds < MaxLifeAdds
       /\ AddCountermeasure(Proposal("screen_state_hook", SvcA, NoInt,
                                     DefaultSeverity), TRUE)
    \/ observations = 0 /\ UpdateEffectiveness(SvcA, FALSE, TRUE)
    \/ \E ok \in BOOLEAN : Restart(ok)
    \/ steps.analyze < MaxLogCycles /\ AnalyzeLogs(OrderLines, TRUE)
    \/ GenerateCycle(MaxAdds)

SpecOrder == Init /\ [][NextOrder]_vars

\* the engine loop started on a manager that holds countermeasures added
\* earlier; the log has no new lines, or the three kills of LoopBatches
NextPersist ==
    \/ loop_pc = "idle" /\ Tick(COUNTERMEASURE_TTL)
    \/ \E h \in {"screen_state_hook", "network_hook"} :
           /\ loop_pc = "idle"
           /\ adds < MaxLifeAdds
           /\ AddCountermeasure(Proposal(h, SvcA, NoInt, DefaultSeverity), TRUE)
    \/ StartLoop
    \/ loop_pc = "analyze" /\ \E lines \in LoopBatches : AnalyzeLogs(lines, TRUE)
    \/ loop_pc = "detect" /\ DetectNewPatterns(TRUE)
    \/ loop_pc = "generate" /\ GenerateCycle(MaxAdds)
    \/ loop_pc = "report" /\ ReportHighThreats
    \/ SleepDone

SpecPersist == Init /\ [][NextPersist]_vars

\* log cycles whose new lines hold ambient events and resurrections of one
\* service, in either order (the second source is read after the first)
IngestLines ==
    <<LogLine("event", "screen_state", 10, "awake"),
      LogLine("event", "network", 13, "connected"),
      LogLine("event", "usb", 30, "attached"),
      LogLine("pattern", SvcX, 12, 30),
      LogLine("pattern", SvcX, 20, 30)>>

\* the new lines of one cycle: one or two of these lines, by position
NextIngest ==
    \E i \in DOMAIN IngestLines, j \in 0 .. Len(IngestLines) :
        /\ steps.analyze < MaxLogCycles
        /\ AnalyzeLogs(IF j = 0 THEN <<IngestLines[i]>>
                       ELSE <<IngestLines[i], IngestLines[j]>>, TRUE)

SpecIngest == Init /\ [][NextIngest]_vars

\* the life of the countermeasures of one service: resurrections are
\* observed on them, time passes afterwards, the process restarts with
\* unreadable metrics, a cycle escalates what is due
NextDue ==
    \/ observations > 0 /\ Tick(MinActiveSeconds)
    \/ \E c \in LifeProposals :
           adds < MaxLifeAdds /\ AddCountermeasure(c, TRUE)
    \/ countermeasures /= <<>> /\ UpdateEffectiveness(SvcA, FALSE, TRUE)
    \/ GenerateCycle(MaxLifeAdds) /\ adds' <= MaxLifeAdds
    \/ Restart(FALSE)

SpecDue == Init /\ [][NextDue]_vars

\* kills and resurrections observed on countermeasures that are added and
\* reloaded, without cycles
NextTrack ==
    \/ \E c \in LifeProposals :
           adds < MaxLifeAdds /\ AddCountermeasure(c, TRUE)
    \/ \E o \in LifeObservations : UpdateEffectiveness(o[1], o[2], TRUE)
    \/ \E ok \in BOOLEAN : Restart(ok)

SpecTrack == Init /\ [][NextTrack]_vars

\* events are recorded and resurrections correlated with them
NextCorr ==
    \/ \E e \in RecordedTypes, t \in EventTimes :
           recorded < MaxEvents /\ RecordEvent(e, t, <<e, t>>)
    \/ \E s \in Services, t \in ResurrectionTimes : CheckResurrectionTriggers(s, t)

SpecCorr == Init /\ [][NextCorr]_vars

\* subject names fed to propose: names sharing an n-gram, a name that
\* repeats an n-gram, a name of digits, and two names that share their
\* first 20 characters
SvcRepeat == <<"a", "b", "c", "d", "a", "b", "c", "d">>
SvcDigits == <<"1", "2", "3", "4", "5", "6", "7", "8">>
SvcDigitsToo == <<"1", "2", "3", "4", "5", "6", "9", "9">>
SvcLong1 == <<"a", "b", "c", "d", "e", "f", "g", "h", "i", "j", "k", "l", "m", "n", "o", "p", "q", "r", "s", "t", "1">>
SvcLong2 == <<"a", "b", "c", "d", "e", "f", "g", "h", "i", "j", "k", "l", "m", "n", "o", "p", "q", "r", "s", "t", "2">>

NgramSubjects ==
    {SvcP, SvcQ, SvcR, SvcS, SvcRepeat, SvcDigits, SvcDigitsToo, SvcLong1, SvcLong2}

\* lists of two or three distinct subjects
NgramSubjectLists ==
    {l \in {<<a, b>> : a, b \in NgramSubjects} : l[1] /= l[2]}
    \cup {l \in {<<a, b, c>> : a, b, c \in NgramSubjects \ {SvcLong1, SvcLong2}} :
              l[1] /= l[2] /\ l[1] /= l[3] /\ l[2] /= l[3]}

NextNgram ==
    \E services \in NgramSubjectLists : GeneratePatternsFromServices(services)

SpecNgram == Init /\ [][NextNgram]_vars

\* a log file that grows, is truncated and is rotated while the parser
\* reads it
NextParse ==
    \/ AppendLine
    \/ TruncateLog
    \/ RotateLog
    \/ ReadNewLines

SpecParse == Init /\ [][NextParse]_vars

\* countermeasures of two ids are deployed, deployed again and stopped
\* while their handler threads run
ExecutorIds == {"preemptive_kill_svc", "fake_location_global"}

NextExecutor ==
    \/ \E cm_id \in ExecutorIds : DeployStartThread(cm_id)
    \/ DeployTrack
    \/ \E t \in 1..MaxDeploys : HandlerReadsStopFlag(t)
    \/ \E t \in 1..MaxDeploys : HandlerExits(t)
    \/ \E cm_id \in ExecutorIds : StopCountermeasure(cm_id)

SpecExecutor == Init /\ [][NextExecutor]_vars

\* the supervisor of one service: the main thread, the monitor thread and
\* the re-enable thread, with children that exit and launches that fail
SupervisorThreads == {"main", "monitor", "reenable"}

NextSupervisor ==
    \/ \E thread \in SupervisorThreads : StartServiceCheck(thread)
    \/ \E thread \in SupervisorThreads, ok \in BOOLEAN : StartServiceLaunch(thread, ok)
    \/ MonitorPoll
    \/ MonitorSleepDone
    \/ ReenableWake
    \/ HealthCheckRestart
    \/ \E child \in 1..MaxLaunches : ChildExits(child)

SpecSupervisor == Init /\ [][NextSupervisor]_vars

\* ================================================================== claims
\* the uniqueness key of the data model: (type, subject), plus the interval
\* for a preemptive_kill
SameKey(e, c) ==
    /\ e.type = c.type
    /\ e.service = c.service
    /\ (c.type = "preemptive_kill" => e.interval = c.interval)

\* the time.time() read by the last save of the last operation
LastSaveTime ==
    IF last_call.op = "add" THEN last_call.at
    ELSE last_call.at + Len(last_call.arg) - 1

LastCallSaved ==
    \/ last_call.op = "add"
    \/ last_call.op = "generate" /\ Len(last_call.arg) > 0

\* C1: for every countermeasure type, a second add with the key
\* (type, subject[, interval]) of an entry that is in the list (and was not
\* re-proposed before) inserts nothing, sets that entry's expiresAt to
\* now + ttl and makes its retryCount 1.
C1_SecondAddUpdatesExisting ==
    (last_call.op = "add") =>
        \A i \in DOMAIN last_call.before :
            LET e == last_call.before[i]
            IN  (SameKey(e, last_call.arg) /\ e.retry_count = 0
                 /\ ~(e.expires_at < last_call.at)) =>
                    /\ Len(countermeasures) <= Len(last_call.before)
                    /\ \E j \in DOMAIN countermeasures :
                           /\ countermeasures[j].id = e.id
                           /\ countermeasures[j].expires_at
                                  = last_call.at + last_call.arg.ttl
                           /\ countermeasures[j].retry_count = 1

\* C2: immediately after any save of the countermeasure list, also one whose
\* file write failed, no entry of the in-memory list has expiresAt < now and
\* none has retryCount >= maxRetries.
C2_NoExpiredAfterSave ==
    LastCallSaved =>
        \A i \in DOMAIN countermeasures :
            /\ ~(countermeasures[i].expires_at < LastSaveTime)
            /\ ~(countermeasures[i].retry_count >= countermeasures[i].max_retries)

\* C2 witness: a save whose write failed dropped an expired entry, and a
\* save dropped an entry that had reached its retry limit
C2_Witness ==
    /\ last_call.op = "add"
    /\ last_call.out = FALSE
    /\ \E i \in DOMAIN last_call.before :
           /\ last_call.before[i].expires_at < last_call.at
           /\ \A j \in DOMAIN countermeasures :
                  countermeasures[j].id /= last_call.before[i].id
    /\ cm_file /= countermeasures

\* the countermeasure kept resurrecting at no less than the baseline rate
\* (resurrectionsBefore per hour) for more than 1800 s
Stalled(cm) ==
    /\ cm.tracking.resurrections_before > 0
    /\ cm.tracking.last_checked - cm.created_at > MinActiveSeconds
    /\ cm.tracking.resurrections_after * 3600
           >= cm.tracking.resurrections_before
                  * (cm.tracking.last_checked - cm.created_at)

\* C3: a countermeasure active for more than 1800 s whose subject keeps
\* resurrecting at the baseline rate has effectiveness 0, is returned by the
\* ineffective-countermeasure query, and the next engine cycle escalates it.
C3_StalledIsEscalated ==
    /\ \A i \in DOMAIN countermeasures :
           Stalled(countermeasures[i]) =>
               /\ recorded_effectiveness(effectiveness_metrics,
                                         countermeasures[i].id) = 0
               /\ i \in ineffective_indices(countermeasures, effectiveness_metrics,
                                            EFFECTIVENESS_THRESHOLD)
    /\ (last_call.op = "generate") =>
           \A i \in DOMAIN last_call.before :
               Stalled(last_call.before[i]) =>
                   \E k \in DOMAIN last_call.arg :
                       last_call.arg[k] =
                           escalate_countermeasure(last_call.before[i], last_call.at)

\* C4: escalating a countermeasure and admitting the result through add
\* yields a list entry whose id differs from the original's id, and the
\* original keeps its id.
C4_EscalationYieldsNewId ==
    (last_call.op = "generate") =>
        \A i \in last_call.out.ineffective :
            LET orig == last_call.before[i]
                esc == escalate_countermeasure(orig, last_call.at)
            IN  /\ \E j \in DOMAIN countermeasures :
                       /\ countermeasures[j].created_at >= last_call.at
                       /\ countermeasures[j].type = esc.type
                       /\ countermeasures[j].service = esc.service
                       /\ countermeasures[j].interval = esc.interval
                       /\ countermeasures[j].id /= orig.id
                /\ \A j \in DOMAIN countermeasures :
                       countermeasures[j].created_at = orig.created_at
                           => countermeasures[j].id = orig.id

\* C5: escalation does not touch the original: after the engine escalated the
\* ineffective countermeasures and admitted the copies, every original is in
\* the list exactly as it was and the list holds one more entry for each.
C5_EscalationLeavesOriginal ==
    (last_call.op = "generate" /\ last_call.out.generated = <<>>) =>
        /\ \A i \in last_call.out.ineffective :
               \E j \in DOMAIN countermeasures :
                   countermeasures[j] = last_call.before[i]
        /\ Len(countermeasures)
               = Len(last_call.before) + Cardinality(last_call.out.ineffective)

\* two cores that the admission rule keeps apart
Redundant(a, b) ==
    \/ IsSubstring(a, b)
    \/ IsSubstring(b, a)
    \/ (Len(a) > 0 /\ Len(b) > 0
        /\ 1000 * (Max(Len(a), Len(b)) - levenshtein_distance(a, b))
               > PATTERN_SIMILARITY_THRESHOLD * Max(Len(a), Len(b)))

\* C6: after any sequence of admit calls no two patterns of the store have
\* cores with similarity above 0.75, and no core is a substring of another.
C6_NoRedundantPatterns ==
    \A i, j \in DOMAIN patterns.patterns :
        i < j => ~Redundant(pattern_core(patterns.patterns[i]),
                            pattern_core(patterns.patterns[j]))

\* C7: admit rejects every candidate whose core is a substring of, or
\* contains, the core of a pattern already in the store; and an admit that
\* repeats the candidate list of the admit before it admits nothing and
\* leaves the pattern list as it was.
C7_AdmitIdempotent ==
    (last_call.op = "admit") =>
        /\ \A k \in DOMAIN last_call.arg :
               (\E i \in DOMAIN last_call.before :
                    \/ IsSubstring(pattern_core(last_call.arg[k]),
                                   pattern_core(last_call.before[i]))
                    \/ IsSubstring(pattern_core(last_call.before[i]),
                                   pattern_core(last_call.arg[k])))
               => \A u \in DOMAIN last_call.out.unique :
                      last_call.out.unique[u] /= last_call.arg[k]
        /\ Len(patterns.patterns)
               = Len(last_call.before) + Len(last_call.out.unique)
        /\ last_call.out.repeated =>
               /\ last_call.out.unique = <<>>
               /\ patterns.patterns = last_call.before

\* C7 witness: the repeated list holds a candidate the first call admitted
\* and one whose core contains the core of a default pattern
C7_Witness ==
    /\ last_call.op = "admit"
    /\ last_call.out.repeated
    /\ \E k \in DOMAIN last_call.arg :
           /\ last_call.arg[k] \notin {DefaultPatterns[i] : i \in DOMAIN DefaultPatterns}
           /\ \E i \in DOMAIN patterns.patterns :
                  patterns.patterns[i] = last_call.arg[k]
    /\ \E k \in DOMAIN last_call.arg :
           \E i \in DOMAIN DefaultPatterns :
               IsSubstring(pattern_core(DefaultPatterns[i]),
                           pattern_core(last_call.arg[k]))

\* the counter of the pair (service, trigger type), 0 when never counted
Counter(service, type) ==
    IF correlation_key(service, type) \in Keys(trigger_correlations)
    THEN Get(trigger_correlations, correlation_key(service, type))
    ELSE 0

\* C8: in the engine cycle, when the correlation counter of (S, T) has
\* reached 7 (confidence 0.7), the generation step proposes for S the hook
\* type that matches T.
C8_StrongCorrelationGetsHook ==
    (last_call.op = "generate") =>
        \A s \in Services, t \in TriggerTypes :
            Counter(s, t) >= 7 =>
                \E i \in DOMAIN last_call.out.generated :
                    /\ last_call.out.generated[i].type = hook_type_of(t)
                    /\ last_call.out.generated[i].service = s

\* C9: strongCorrelations returns, for every pair (S, T) whose counter is at
\* least minCount, one entry with exactly that subject and trigger type, its
\* count and confidence min(1, count/10); no entry for a pair below minCount;
\* entries in non-increasing confidence order.
C9_StrongCorrelationsCarryPair ==
    (last_call.op = "generate") =>
        LET strong == last_call.out.strong
        IN  /\ \A s \in Services, t \in TriggerTypes :
                   LET hits == {i \in DOMAIN strong :
                                    strong[i].service = s /\ strong[i].trigger_type = t}
                   IN  IF Counter(s, t) >= DefaultMinCount
                       THEN /\ Cardinality(hits) = 1
                            /\ \A i \in hits :
                                   /\ strong[i].count = Counter(s, t)
                                   /\ strong[i].confidence
                                          = Min(1000, Counter(s, t) * 100)
                       ELSE hits = {}
            /\ \A i, j \in DOMAIN strong :
                   i < j => strong[i].confidence >= strong[j].confidence

\* the six windows with the trigger type each of them yields
WindowsOf(ev) ==
    <<[window |-> ev.screen_state_changes, type |-> T_screen_state_change],
      [window |-> ev.network_changes, type |-> T_network_change],
      [window |-> ev.usb_events, type |-> T_usb_event],
      [window |-> ev.bluetooth_events, type |-> T_bluetooth_event],
      [window |-> ev.app_launches, type |-> T_app_launch],
      [window |-> ev.foreground_app_changes, type |-> T_foreground_app_change]>>

\* C10: correlate(subject, t) returns a trigger for an event e of a window
\* if and only if |e.timestamp - t| <= 5 s, boundary included: every event
\* within 5 s has a trigger of its window's type, with its details and
\* distance, and the triggers are no more than those events.
C10_TriggerIffWithinWindow ==
    (last_call.op = "correlate") =>
        LET t == last_call.arg[2]
            out == last_call.out
            ws == WindowsOf(last_call.before)
        IN  \A w \in DOMAIN ws :
                LET near == {i \in DOMAIN ws[w].window :
                                 Abs(ws[w].window[i].timestamp - t) <= 5}
                    got == {k \in DOMAIN out : out[k].type = ws[w].type}
                IN  /\ Cardinality(got) = Cardinality(near)
                    /\ \A i \in near :
                           \E k \in got :
                               /\ out[k].service = last_call.arg[1]
                               /\ out[k].details = ws[w].window[i].details
                               /\ out[k].time_diff
                                      = Abs(ws[w].window[i].timestamp - t)

\* C10 witness: one correlate call with screen-state changes exactly 5 s and
\* 10 s away, and another with one 2 s away
C10_Witness ==
    /\ last_call.op = "correlate"
    /\ \E i, j \in DOMAIN last_call.before.screen_state_changes :
           /\ Abs(last_call.before.screen_state_changes[i].timestamp
                  - last_call.arg[2]) = 5
           /\ Abs(last_call.before.screen_state_changes[j].timestamp
                  - last_call.arg[2]) = 10
    /\ Len(last_call.out) = 1
    /\ \E key \in Keys(trigger_correlations) :
           Get(trigger_correlations, key) >= 2

\* sum of the squares of n * t - S over the intervals: n^3 times the
\* population variance
SquaredDeviations(times) ==
    LET n == Len(times)
        S == SumSeq(times)
    IN  SumSeq([i \in DOMAIN times |-> (n * times[i] - S) * (n * times[i] - S)])

\* C11: generate proposes exactly one preemptive_kill for each subject with
\* at least 3 recorded resurrection intervals of population variance < 25,
\* with interval max(1, floor(mean) - 2); none for a subject with fewer
\* intervals or a larger variance; the proposed interval is at least 1.
C11_PreemptiveKillPerConsistentSubject ==
    (last_call.op = "generate") =>
        LET generated == last_call.out.generated
            kills == {i \in DOMAIN generated : generated[i].type = "preemptive_kill"}
        IN  /\ \A i \in kills :
                   /\ generated[i].interval >= 1
                   /\ generated[i].service \in Keys(resurrection_patterns)
            /\ \A s \in Keys(resurrection_patterns) :
                   LET times == Get(resurrection_patterns, s)
                       n == Len(times)
                       mine == {i \in kills : generated[i].service = s}
                   IN  IF n >= 3 /\ SquaredDeviations(times) < 25 * n * n * n
                       THEN /\ Cardinality(mine) = 1
                            /\ \A i \in mine :
                                   generated[i].interval
                                       = Max(1, (SumSeq(times) \div n) - 2)
                       ELSE mine = {}

\* C11 witness: intervals {30, 31, 29, 30} of one subject give interval 28,
\* while the other subject has intervals but gets no proposal
C11_Witness ==
    /\ last_call.op = "generate"
    /\ SvcX \in Keys(resurrection_patterns)
    /\ Get(resurrection_patterns, SvcX) = <<30, 31, 29, 30>>
    /\ SvcY \in Keys(resurrection_patterns)
    /\ Len(last_call.out.generated) = 1
    /\ last_call.out.generated[1].service = SvcX
    /\ last_call.out.generated[1].interval = 28

\* the sum of the claim for one subject's stats, in thousandths, unclamped
ScoreSum(st) ==
    LET n == Len(st.resurrection_times)
        total == SumSeq(st.resurrection_times)
    IN  500
        + (IF st.kill_count > 0
           THEN Min(300, (100 * st.resurrection_count) \div st.kill_count) ELSE 0)
        + (IF n = 0 THEN 0
           ELSE IF total < 10 * n THEN 150
           ELSE IF total < 30 * n THEN 100
           ELSE IF total < 60 * n THEN 50 ELSE 0)
        + Min(200, 50 * Cardinality(st.patterns_matched))

\* the subject was last seen more than seven days before time t
Stale(service, t) == t - Get(service_stats, service).last_seen > SevenDays

\* C12: every value returned by scoreAll lies in [0, 1]; for a subject seen
\* in the last seven days it is the sum of base, ratio term, speed bonus and
\* pattern term, clamped to that range.
C12_ScoresWithinUnitRange ==
    (last_call.op = "score") =>
        \A i \in DOMAIN last_call.out :
            /\ last_call.out[i].value >= 0
            /\ last_call.out[i].value <= 1000
            /\ ~Stale(last_call.out[i].key, last_call.at) =>
                   last_call.out[i].value
                       = Max(0, Min(1000, ScoreSum(Get(service_stats,
                                                       last_call.out[i].key))))

\* C12 witness: a sum above 1 was clamped
C12_Witness ==
    /\ last_call.op = "score"
    /\ \E i \in DOMAIN last_call.out :
           /\ ScoreSum(Get(service_stats, last_call.out[i].key)) > 1000
           /\ last_call.out[i].value = 1000

\* the subject-to-score map as a set of pairs
ScoreMap(scores) == {<<scores[i].key, scores[i].value>> : i \in DOMAIN scores}

\* C13: scoreAll is deterministic given the SubjectStats: the map returned
\* is the one a scorer holding the same stats returns at the same time on
\* its first call, whatever scoreAll calls were made before.
C13_ScoreAllDeterministic ==
    (last_call.op = "score") =>
        ScoreMap(last_call.out)
            = ScoreMap(calculate_threat_scores(service_stats, <<>>, last_call.at))

\* C14: the map returned by scoreAll, and the highPriority list derived
\* from it, hold no subject last seen more than 604800 s before the call.
C14_StaleSubjectsIgnored ==
    /\ (last_call.op = "score") =>
           \A i \in DOMAIN last_call.out :
               ~Stale(last_call.out[i].key, last_call.at)
    /\ (last_call.op = "report") =>
           \A i \in DOMAIN last_call.out :
               ~Stale(last_call.out[i].service, last_call.at)

\* the window that holds the events of one kind
WindowOf(ev, kind) ==
    IF kind = "screen_state" THEN ev.screen_state_changes
    ELSE IF kind = "network" THEN ev.network_changes
    ELSE IF kind = "usb" THEN ev.usb_events
    ELSE IF kind = "bluetooth" THEN ev.bluetooth_events
    ELSE IF kind = "app_launch" THEN ev.app_launches
    ELSE ev.foreground_app_changes

\* C17: each of the six event windows holds at most 20 entries, in arrival
\* order: a record call appends the event to the window of its kind,
\* evicting the oldest entry when 20 were held, and leaves the other five
\* windows as they were.
C17_WindowsKeepLast20 ==
    /\ \A kind \in EventTypes : Len(WindowOf(events, kind)) <= 20
    /\ (last_call.op = "record") =>
           LET kind == last_call.arg[1]
               event == [timestamp |-> last_call.arg[2], details |-> last_call.arg[3]]
               old == WindowOf(last_call.before, kind)
           IN  /\ WindowOf(events, kind)
                      = IF Len(old) < 20 THEN Append(old, event)
                        ELSE Append(Tail(old), event)
               /\ \A other \in EventTypes \ {kind} :
                      WindowOf(events, other) = WindowOf(last_call.before, other)

\* C17 witness: a full window took a 21st event while another window holds
\* an earlier event
C17_Witness ==
    /\ last_call.op = "record"
    /\ Len(WindowOf(last_call.before, last_call.arg[1])) = 20
    /\ WindowOf(events, last_call.arg[1])[20].timestamp = last_call.arg[2]
    /\ \E other \in EventTypes \ {last_call.arg[1]} :
           WindowOf(events, other) /= <<>>

\* C18: match(subject) never aborts: a stored pattern that fails to compile
\* is not in the compiled cache afterwards and is not returned, every other
\* stored pattern is evaluated and returned exactly when it matches, and the
\* pattern store is as before.
C18_MatchSkipsFailingPattern ==
    (last_call.op = "match") =>
        LET pats == last_call.before.patterns
            returned == {last_call.out[i] : i \in DOMAIN last_call.out}
        IN  /\ patterns.patterns = pats
            /\ \A i \in DOMAIN pats :
                   IF regex_compiles(pats[i])
                   THEN /\ pats[i] \in pattern_cache
                        /\ pats[i] \in returned
                               <=> regex_search(pats[i], last_call.arg)
                   ELSE /\ pats[i] \notin pattern_cache
                        /\ pats[i] \notin returned

\* C18 witness: the store holds a pattern that does not compile, and a
\* pattern behind it in the list matched
C18_Witness ==
    /\ last_call.op = "match"
    /\ \E i, j \in DOMAIN patterns.patterns :
           /\ i < j
           /\ ~regex_compiles(patterns.patterns[i])
           /\ \E k \in DOMAIN last_call.out :
                  last_call.out[k] = patterns.patterns[j]

FailsExtraction(line) ==
    line.kind \in {"kill_bad_time", "kill_unmatched", "pattern_unmatched"}

Extracted(lines) == SelectSeq(lines, LAMBDA l : ~FailsExtraction(l))

CountKind(lines, kind) == Len(SelectSeq(lines, LAMBDA l : l.kind = kind))

\* C19: a [KILL] or [PATTERN] line that fails structured extraction is
\* dropped: kill history, resurrection history, subject stats, countermeasure
\* tracking and the cycle's event counters are what the cycle's other lines
\* alone produce (unchanged when every line fails extraction), and every
\* well-formed line of the cycle is counted.
C19_MalformedLinesDropped ==
    (last_call.op = "analyze") =>
        LET lines == last_call.arg
            alone == process_lines(last_call.before, patterns.patterns,
                                   Extracted(lines), last_call.at)
        IN  /\ kill_history = alone.kill_history
            /\ resurrection_patterns = alone.resurrection_patterns
            /\ service_stats = alone.stats
            /\ countermeasures = alone.cms
            /\ effectiveness_metrics = alone.metrics
            /\ last_call.out = <<CountKind(lines, "kill"), CountKind(lines, "pattern")>>
            /\ Extracted(lines) = <<>> =>
                   /\ kill_history = last_call.before.kill_history
                   /\ resurrection_patterns = last_call.before.resurrection_patterns
                   /\ service_stats = last_call.before.stats
                   /\ countermeasures = last_call.before.cms
                   /\ effectiveness_metrics = last_call.before.metrics

\* C19 witness: a line that fails extraction came before a well-formed line
\* of the same cycle, which was counted, while a countermeasure is tracked
C19_Witness ==
    /\ last_call.op = "analyze"
    /\ countermeasures # <<>>
    /\ \E i, j \in DOMAIN last_call.arg :
           /\ i < j
           /\ last_call.arg[i].kind = "kill_bad_time"
           /\ last_call.arg[j].kind = "kill"
    /\ last_call.out[1] = 1

\* C15: the engine loop does not end because of an error raised in a cycle:
\* the loop is only ever left by a user interrupt, an exception raised in a
\* cycle step is followed by the backoff, and after the backoff another
\* cycle is attempted unless the user interrupts.
C15_LoopSurvivesCycleErrors ==
    /\ [](loop_pc = "exited" => last_call.op = "interrupt")
    /\ [](last_call.op = "error" => loop_pc = "backoff")
    /\ (loop_pc = "backoff" /\ steps.wake < MaxWakes)
           ~> (loop_pc = "analyze" \/ last_call.op = "interrupt")

\* C15 witness: a cycle is about to be attempted after the backoff that
\* followed an error
C15_Witness ==
    /\ loop_pc = "analyze"
    /\ last_call.op = "wake"
    /\ last_call.before = "backoff"

\* what a restart finds of the subject stats and of the correlation
\* counters: no file holds them (ThreatScorer.__init__, lines 1016-1020,
\* TriggerAnalyzer.__init__, lines 368-377)
StoredStats == <<>>
StoredCorrelations == <<>>

\* C16: when the engine loop has been stopped, the pattern store, the
\* countermeasure list, the effectiveness metrics, the subject stats and the
\* correlation counters are all persisted.
C16_ShutdownPersistsState ==
    (loop_pc = "exited") =>
        /\ pattern_file = patterns
        /\ cm_file = countermeasures
        /\ metrics_file = effectiveness_metrics
        /\ StoredStats = service_stats
        /\ StoredCorrelations = trigger_correlations

\* C20: a pattern write that failed is attempted again in the next cycle:
\* after the pattern step of a cycle in which writes succeed, the pattern
\* file equals the pattern list in memory, also when the step admitted
\* nothing.
C20_FailedWriteRetriedNextCycle ==
    (last_call.op = "detect" /\ last_call.out.write_ok) =>
        pattern_file = patterns

LocationProposals == generate_patterns_from_services(LocationSubjects)

Location == <<"L", "o", "c", "a", "t", "i", "o", "n">>

\* C21: proposing from FooLocationService, BarLocationService and
\* BazLocationService and admitting the proposals admits a pattern whose
\* core is "Location" or an n-gram containing "Location".
C21_LocationPatternAdmitted ==
    (last_call.op = "admit" /\ last_call.arg = LocationProposals) =>
        \E k \in DOMAIN last_call.out.unique :
            /\ IsSubstring(Location, pattern_core(last_call.out.unique[k]))
            /\ \E i \in DOMAIN patterns.patterns :
                   patterns.patterns[i] = last_call.out.unique[k]

TimesOf(stats, service) ==
    IF service \in Keys(stats) THEN Get(stats, service).resurrection_times
    ELSE <<>>

\* C22: the resurrection-interval history of every subject has at most 20
\* entries; an observation with an interval makes the subject's history the
\* last 20, in order, of the earlier history followed by the new interval,
\* and leaves every other history as it was; no subject's entry is deleted.
C22_IntervalHistoryIsLast20 ==
    /\ \A i \in DOMAIN service_stats :
           Len(service_stats[i].value.resurrection_times) <= 20
    /\ (last_call.op = "observe") =>
           LET service == last_call.arg[1]
               old == TimesOf(last_call.before, service)
               all == IF last_call.arg[2] \/ last_call.arg[3] = NoInt THEN old
                      ELSE Append(old, last_call.arg[3])
               new == TimesOf(service_stats, service)
           IN  /\ Keys(last_call.before) \cup {service} = Keys(service_stats)
               /\ Len(new) = Min(20, Len(all))
               /\ \A k \in 1..Len(new) : new[k] = all[Len(all) - Len(new) + k]
               /\ \A other \in Keys(last_call.before) \ {service} :
                      TimesOf(service_stats, other)
                          = TimesOf(last_call.before, other)

\* C22 witness: a subject with 20 intervals on record was observed again,
\* and its oldest interval made room
C22_Witness ==
    /\ last_call.op = "observe"
    /\ ~last_call.arg[2]
    /\ Len(TimesOf(last_call.before, last_call.arg[1])) = 20
    /\ TimesOf(service_stats, last_call.arg[1])[1]
           = TimesOf(last_call.before, last_call.arg[1])[2]
    /\ TimesOf(service_stats, last_call.arg[1])[20] = last_call.arg[3]
    /\ Cardinality(Keys(service_stats)) = 2

\* C23: a duplicate add does not shorten the existing entry's lifetime:
\* when add finds a duplicate, the existing entry's expires_at is not below
\* its value before the call, and its retry_count is one more than before.
C23_DuplicateAddKeepsLifetime ==
    (last_call.op = "add") =>
        LET before == last_call.before
            stamped == stamp_countermeasure(last_call.arg, last_call.at)
            dups == {i \in DOMAIN before :
                        is_duplicate_countermeasure(before[i], stamped)}
        IN  dups /= {} =>
                LET old == before[CHOOSE i \in dups : \A j \in dups : i <= j]
                IN  \A k \in DOMAIN countermeasures :
                        countermeasures[k].id = old.id =>
                            /\ countermeasures[k].expires_at >= old.expires_at
                            /\ countermeasures[k].retry_count = old.retry_count + 1

\* the escalations among the countermeasures a cycle passed to add: the
\* ones that carry the doubled TTL
EscalationsOf(passed) ==
    SelectSeq(passed, LAMBDA c : c.ttl = 2 * COUNTERMEASURE_TTL)

\* the entries of a list that were checked at least 1800 s after their
\* creation and whose recorded effectiveness, 0 when none is recorded for
\* their id, is below the threshold
DueForEscalation(cms, metrics) ==
    SelectSeq(cms, LAMBDA cm :
        /\ cm.tracking.last_checked - cm.created_at >= 1800
        /\ \A i \in DOMAIN metrics.countermeasures :
               metrics.countermeasures[i].key = cm.id =>
                   metrics.countermeasures[i].value.effectiveness < 500
        )

\* C24: the countermeasures a cycle escalates are the list entries with
\* last_checked - created_at >= 1800 and an effectiveness below 0.5; an
\* entry whose last check is less than 1800 s after its creation is not
\* escalated.
C24_EscalatedOnlyWhenDue ==
    (last_call.op = "generate") =>
        LET escalated == EscalationsOf(last_call.arg)
            due == DueForEscalation(last_call.before, effectiveness_metrics)
        IN  /\ Len(escalated) = Len(due)
            /\ \A k \in DOMAIN escalated :
                   /\ escalated[k].service = due[k].service
                   /\ escalated[k].severity = Min(1000, due[k].severity + 200)

\* C24 witness: a cycle escalated one entry of the list and left alone
\* another one, which had not been checked 1800 s after its creation
C24_Witness ==
    /\ last_call.op = "generate"
    /\ EscalationsOf(last_call.arg) /= <<>>
    /\ \E i \in DOMAIN last_call.before :
           last_call.before[i].tracking.last_checked
               - last_call.before[i].created_at < 1800

\* C25: escalate halves the interval of a preemptive_kill (not below 1),
\* turns a hook of any of the six types into a combined_strategy of that
\* hook and a preemptive_kill at interval 15, raises the severity by 0.2 up
\* to 1.0, resets the tracking counters and carries no id over; the entry
\* that the add of the escalated copy inserts expires 2 x TTL after the add.
C25_EscalateYields ==
    (last_call.op = "escalate") =>
        LET cm == last_call.arg
            e == last_call.out
        IN  /\ cm.type = "preemptive_kill" =>
                   /\ e.type = "preemptive_kill"
                   /\ e.interval = (IF cm.interval \div 2 < 1 THEN 1
                                    ELSE cm.interval \div 2)
            /\ cm.type \in HookTypes =>
                   /\ e.type = "combined_strategy"
                   /\ e.components = <<cm.type, "preemptive_kill">>
                   /\ e.interval = 15
            /\ e.severity = (IF cm.severity + 200 > 1000 THEN 1000
                             ELSE cm.severity + 200)
            /\ e.tracking.resurrections_before = 0
            /\ e.tracking.resurrections_after = 0
            /\ e.id = NoId
            /\ e.service = cm.service
            /\ \A k \in DOMAIN countermeasures :
                   countermeasures[k].created_at = last_call.at =>
                       /\ countermeasures[k].expires_at
                              = last_call.at + 2 * 86400
                       /\ countermeasures[k].id /= cm.id
                       /\ countermeasures[k].type = e.type
                       /\ countermeasures[k].interval = e.interval
                       /\ countermeasures[k].severity = e.severity

\* C25 witness: a hook with severity 0.9 was escalated and the combined
\* strategy was inserted into the list
C25_Witness ==
    /\ last_call.op = "escalate"
    /\ last_call.arg.type \in HookTypes
    /\ last_call.arg.severity = 900
    /\ \E k \in DOMAIN countermeasures :
           /\ countermeasures[k].created_at = last_call.at
           /\ countermeasures[k].type = "combined_strategy"
           /\ countermeasures[k].severity = 1000

\* C26: a resurrection of S gives a countermeasure on S whose counters are
\* both 0 (as add leaves them) a resurrections_before >= 1 and leaves its
\* resurrections_after at 0, and adds exactly one to the resurrections_after
\* of a countermeasure on S that has its baseline; a kill, or a resurrection
\* of another subject, changes neither counter; every recorded effectiveness
\* lies in [0, 1].
C26_BaselineThenCount ==
    /\ \A i \in DOMAIN effectiveness_metrics.countermeasures :
           /\ effectiveness_metrics.countermeasures[i].value.effectiveness >= 0
           /\ effectiveness_metrics.countermeasures[i].value.effectiveness <= 1000
    /\ (last_call.op = "update") =>
           /\ Len(countermeasures) = Len(last_call.before)
           /\ \A k \in DOMAIN last_call.before :
                  LET old == last_call.before[k].tracking
                      new == countermeasures[k].tracking
                  IN  IF last_call.arg[2]
                         \/ last_call.before[k].service /= last_call.arg[1]
                      THEN /\ new.resurrections_before = old.resurrections_before
                           /\ new.resurrections_after = old.resurrections_after
                      ELSE IF old.resurrections_before = 0
                              /\ old.resurrections_after = 0
                      THEN /\ new.resurrections_before >= 1
                           /\ new.resurrections_after = 0
                      ELSE /\ new.resurrections_before = old.resurrections_before
                           /\ new.resurrections_after = old.resurrections_after + 1

\* C26 witness: the second resurrection of the subject of a countermeasure
\* was observed and counted, and an effectiveness is on record for it
C26_Witness ==
    /\ last_call.op = "update"
    /\ ~last_call.arg[2]
    /\ \E k \in DOMAIN last_call.before :
           /\ last_call.before[k].service = last_call.arg[1]
           /\ last_call.before[k].tracking.resurrections_before >= 1
           /\ countermeasures[k].tracking.resurrections_after = 1
           /\ countermeasures[k].id \in Keys(effectiveness_metrics.countermeasures)

\* C27: the countermeasures a cycle passes to add, generated proposals and
\* escalations together, are in non-increasing order of severity, and the
\* severity of each generated proposal is the threat score of its subject,
\* 0.5 when the subject has no score.
C27_AddedBySeverity ==
    (last_call.op = "generate") =>
        /\ \A i, j \in DOMAIN last_call.arg :
               i < j => last_call.arg[i].severity >= last_call.arg[j].severity
        /\ \A k \in DOMAIN last_call.out.generated :
               last_call.out.generated[k].severity
                   = (IF last_call.out.generated[k].service \in Keys(threat_scores)
                      THEN Get(threat_scores, last_call.out.generated[k].service)
                      ELSE 500)

\* C28: a cycle that completes without error has persisted the pattern
\* store and the countermeasure list, pruning the expired countermeasures,
\* also when it admitted nothing: at the end of a completed cycle the files
\* equal the lists in memory and no countermeasure whose expires_at has
\* passed is in the list.
C28_CompletedCyclePersists ==
    (loop_pc = "sleep") =>
        /\ pattern_file = patterns
        /\ cm_file = countermeasures
        /\ \A k \in DOMAIN countermeasures :
               ~(countermeasures[k].expires_at < now)

\* C29: a stop request takes effect only between cycles: the loop exits
\* only from the sleep between two cycles (or the backoff after a failed
\* one), never while a step of a started cycle is still to run.
C29_StopOnlyBetweenCycles ==
    (loop_pc = "exited") =>
        /\ last_call.op = "interrupt"
        /\ last_call.before \in {"sleep", "backoff"}

\* the trigger type check_resurrection_triggers gives to an event of a window
TriggerTypeOf(event_type) ==
    IF event_type = "screen_state" THEN T_screen_state_change
    ELSE IF event_type = "network" THEN T_network_change
    ELSE T_usb_event

CounterOf(corr, key) == IF key \in Keys(corr) THEN Get(corr, key) ELSE 0

\* C30: within one cycle a resurrection is correlated with every ambient
\* event of that cycle that lies within the time window of it, whatever the
\* order of the lines: after analyze_logs, for every resurrection line and
\* every event line of the batch within TimeWindow of each other, the
\* counter of the service and the event's trigger type has grown.
C30_CorrelatedInAnyOrder ==
    (last_call.op = "analyze") =>
        \A i, j \in DOMAIN last_call.arg :
            LET p == last_call.arg[i]
                e == last_call.arg[j]
            IN  (/\ p.kind = "pattern"
                 /\ e.kind = "event"
                 /\ in_time_window(p.timestamp, [timestamp |-> e.timestamp]))
                => CounterOf(trigger_correlations,
                             correlation_key(p.service, TriggerTypeOf(e.service)))
                   > CounterOf(last_call.before.corr,
                               correlation_key(p.service, TriggerTypeOf(e.service)))

\* the triggers of one call that carry the pair (service, type)
EmittedFor(out, service, type) ==
    Cardinality({i \in DOMAIN out : out[i].service = service /\ out[i].type = type})

\* C31: check_resurrection_triggers returns its triggers in non-decreasing
\* time_diff order, raises the counter of (service, type) by one for every
\* trigger it emits and leaves every other counter and the event windows as
\* they were; no step of the program lowers or drops a counter.
C31_CorrelateCountsEachTrigger ==
    [][/\ (correlated' = correlated + 1) =>
              LET out == last_call'.out
              IN  /\ \A i \in 1 .. Len(out) - 1 :
                         out[i].time_diff <= out[i + 1].time_diff
                  /\ \A s \in Services, ty \in TriggerTypes :
                         CounterOf(trigger_correlations', correlation_key(s, ty))
                             = CounterOf(trigger_correlations, correlation_key(s, ty))
                               + EmittedFor(out, s, ty)
                  /\ Keys(trigger_correlations')
                         \subseteq {correlation_key(s, ty) : s \in Services, ty \in TriggerTypes}
                  /\ events' = events
       /\ \A k \in Keys(trigger_correlations) :
              CounterOf(trigger_correlations', k) >= CounterOf(trigger_correlations, k)
      ]_vars

\* a call that emitted two triggers of one type, which the loops had
\* appended in another order than the returned one, on top of an earlier
\* count
C31_Witness ==
    /\ last_call.op = "correlate"
    /\ \E i, j \in DOMAIN last_call.out :
           /\ i < j
           /\ last_call.out[i].type = last_call.out[j].type
           /\ last_call.out[i].time_diff < last_call.out[j].time_diff
    /\ last_call.out /= unsorted_triggers(events, last_call.arg[1], last_call.arg[2])
    /\ \E k \in Keys(trigger_correlations) : Get(trigger_correlations, k) >= 3

\* C32: add_pattern_match(service, pattern) only adds the pattern to the
\* service's matched-pattern set: kill count, resurrection count and
\* interval history of the service are as before the call (zero and empty
\* when the service had no entry), and the other services' stats are
\* unchanged.
C32_PatternMatchOnlyAddsPattern ==
    (last_call.op = "pattern_match") =>
        LET service == last_call.arg[1]
            old == IF service \in Keys(last_call.before)
                   THEN Get(last_call.before, service)
                   ELSE NewServiceStats(last_call.at)
            new == Get(service_stats, service)
        IN  /\ new.patterns_matched = old.patterns_matched \cup {last_call.arg[2]}
            /\ new.kill_count = old.kill_count
            /\ new.resurrection_count = old.resurrection_count
            /\ new.resurrection_times = old.resurrection_times
            /\ \A s \in Keys(last_call.before) \ {service} :
                   Get(service_stats, s) = Get(last_call.before, s)

\* the substrings of a name with a length from lo to hi
SubstringsOf(name, lo, hi) ==
    {SubSeq(name, p[1], p[1] + p[2] - 1) :
         p \in {q \in (1 .. Len(name)) \X (lo .. hi) : q[1] + q[2] - 1 <= Len(name)}}

\* the n-grams the claim makes candidates
SharedNgrams(services) ==
    {g \in UNION {SubstringsOf(services[k], MIN_PATTERN_LENGTH, MAX_PATTERN_LENGTH) :
                      k \in DOMAIN services} :
        /\ \E c \in DOMAIN g : g[c] \in Letters
        /\ Cardinality({k \in DOMAIN services :
               g \in SubstringsOf(services[k], Len(g), Len(g))}) >= 2}

\* C33: generate_patterns_from_services emits .*<escaped n-gram>.* for an
\* n-gram exactly when its length is between 4 and 20, it holds a letter and
\* it occurs in at least two distinct names of the input; occurring several
\* times inside one name does not make it a candidate.
C33_CandidateIffSharedNgram ==
    (last_call.op = "propose") =>
        {last_call.out[k] : k \in DOMAIN last_call.out}
            = {<<".", "*">> \o re_escape(g) \o <<".", "*">> :
                   g \in SharedNgrams(last_call.arg)}

\* C34: add_patterns only appends: the patterns of the store keep their
\* positions and content, the admitted candidates follow them in candidate
\* order, the value returned is the number of patterns appended, and the
\* compiled-pattern cache is empty after a call that appended a pattern.
C34_AdmitOnlyAppends ==
    [][(admits' = admits + 1) =>
           LET before == patterns.patterns
               after == patterns'.patterns
               appended == SubSeq(after, Len(before) + 1, Len(after))
               returned == Len(last_call'.out.unique)
           IN  /\ Len(after) >= Len(before)
               /\ SubSeq(after, 1, Len(before)) = before
               /\ appended = SelectSeq(last_call'.arg, LAMBDA pattern :
                                 \E i \in DOMAIN appended : appended[i] = pattern)
               /\ returned = Len(after) - Len(before)
               /\ (appended /= <<>>) => (pattern_cache' = {})
      ]_vars

\* a call that appended two candidates to a store whose cache held
\* compiled patterns
C34_Witness ==
    /\ last_call.op = "admit"
    /\ Len(last_call.out.unique) = 2
    /\ last_call.out.cache_before /= {}
    /\ pattern_cache = {}
    /\ Len(patterns.patterns) = Len(last_call.before) + 2

\* C35: read_new_lines returns the lines appended since the previous read,
\* each once and in order, when the file only grew; when the file was
\* rotated or truncated since the previous read, it starts again at offset
\* zero and returns the whole current content, also when the truncated file
\* has grown to its earlier size or beyond.
C35_ReaderFollowsTheFile ==
    (last_call.op = "read_lines") =>
        LET lines == last_call.arg.lines
            position == last_call.before.parser.last_position
        IN  IF last_call.before.changed
            THEN last_call.out = lines
            ELSE last_call.out = SubSeq(lines, position + 1, Len(lines))

\* C36: a countermeasure proposed again and again with the same key
\* (type, service and, for preemptive_kill, interval) is held once and its
\* retry_count grows by one per duplicate add; the add that brings it to
\* max_retries = 3 removes it from the list and from the file that add
\* saves; the next add with the key inserts it anew with retry_count 0, the
\* time of that add as created_at and an id no entry had before.
C36_ThirdDuplicateAddRemoves ==
    (last_call.op = "add") =>
        LET c == last_call.arg
            before == last_call.before
            olds == {i \in DOMAIN before : SameKey(before[i], c)}
            news == {j \in DOMAIN countermeasures : SameKey(countermeasures[j], c)}
        IN  IF olds = {}
            THEN /\ Cardinality(news) = 1
                 /\ \A j \in news :
                        /\ countermeasures[j].retry_count = 0
                        /\ countermeasures[j].created_at = last_call.at
                        /\ \A i \in DOMAIN before :
                               before[i].id /= countermeasures[j].id
            ELSE IF \E i \in olds : before[i].retry_count + 1 >= DefaultMaxRetries
            THEN /\ news = {}
                 /\ last_call.out =>
                        \A k \in DOMAIN cm_file : ~SameKey(cm_file[k], c)
            ELSE /\ Cardinality(olds) = 1
                 /\ Cardinality(news) = 1
                 /\ \A i \in olds, j \in news :
                        countermeasures[j].retry_count = before[i].retry_count + 1

\* C37: after any sequence of adds and escalations no two entries of the
\* countermeasure list (nor of the saved file) have the same id, so no two
\* countermeasures share a key of the effectiveness metrics.
C37_IdsAreUnique ==
    /\ \A i, j \in DOMAIN countermeasures :
           (i /= j) => (countermeasures[i].id /= countermeasures[j].id)
    /\ \A i, j \in DOMAIN cm_file :
           (i /= j) => (cm_file[i].id /= cm_file[j].id)
    /\ \A i \in DOMAIN countermeasures : countermeasures[i].id /= NoId

\* an escalation has put a second entry of one type and service in the
\* list: the two differ in their ids by the time of the add alone
C37_Witness ==
    /\ last_call.op = "escalate"
    /\ \E i, j \in DOMAIN countermeasures :
           /\ i < j
           /\ countermeasures[i].type = countermeasures[j].type
           /\ countermeasures[i].service = countermeasures[j].service
           /\ countermeasures[i].id /= countermeasures[j].id

\* C38: every handler thread started by _deploy_countermeasure finds its
\* own entry in active_countermeasures and waits on the stop flag stored in
\* that entry, under every interleaving with the deploying thread; once its
\* id was stopped, the handler can exit.
C38_HandlerFindsItsEntry ==
    \A t \in DOMAIN handlers :
        /\ handlers[t].pc /= "crashed"
        /\ (handlers[t].pc \in {"waiting", "exited"}) => (handlers[t].stop_flag = t)

\* C39: at most one child process started by the supervisor runs for the
\* service at any time, under every interleaving of the monitor thread, the
\* re-enable thread and the main thread's health-check restart.
C39_AtMostOneChild ==
    Cardinality(children) <= 1

\* C40: whenever the failure count of the service has reached max_failures,
\* its restart flag is false and no thread is starting it, until the
\* re-enable thread sets the flag and clears the count; failed launches
\* count like exits.
C40_DisabledAtMaxFailures ==
    (failure_counts >= max_failures) =>
        /\ ~service_restart
        /\ \A thread \in SupervisorThreads :
               supervisor_pc[thread] \notin {"start_launch", "restart_launch",
                                             "backoff_launch", "scan_launch",
                                             "launch"}

====
